---- MODULE Spec2Model ----
(***************************************************************************)
(* State-machine model of the ADO migration readiness analyzer:            *)
(*   backend/main.py            the FastAPI backend: AppState, the request *)
(*                              handlers, the background tasks run_scan    *)
(*                              and run_migration, broadcast_progress      *)
(*   ado_readiness/scanner.py   OrganizationScanner (summary, scores,      *)
(*                              cache) as pure operators                   *)
(*   ado_readiness/ado_client.py the collector calls and what each does    *)
(*                              with a failure of its HTTP request         *)
(*   ado_readiness/config.py    the stored configuration                   *)
(*   ado_readiness/cli.py       the scan command                           *)
(*                                                                         *)
(* Scheduling is asyncio's: one thread, a task keeps the event loop until  *)
(* it suspends on an await that really waits.  The variable `running`      *)
(* names the task that holds the loop in the middle of such a stretch.     *)
(***************************************************************************)
EXTENDS Integers, Sequences, FiniteSets, TLC

\* ------------------------------------------------------------------ bounds

\* Background scan tasks the environment may create in one behaviour.
MaxScans == 2
\* Scan tasks in the behaviours that let every collector call fail.
MaxCollectScans == 1
\* Background migration tasks the environment may create in one behaviour.
MaxMigrations == 2
\* Websocket subscribers that may connect.
MaxSubscribers == 1
\* CLI scan commands run in one behaviour.
MaxCliRuns == 3
\* Scan tasks and subscribers in a behaviour that follows the publishes of
\* a scan.
MaxPublishScans == 1
MaxPublishSubscribers == 2
\* Scan tasks, and migration tasks, in a behaviour with a scan and a batch
\* side by side.
MaxMixedRuns == 1
\* Migration tasks in a behaviour that follows one batch through.
MaxBatchRuns == 1
\* Project records in a list given to calculate_summary.
MaxProjects == 2
\* Scores given to score_to_rating run from -ScoreMargin to 100 + ScoreMargin.
ScoreMargin == 3

\* Python's None.  TLC compares a record with a record and a string with a
\* string only, so None is a record where the other values are records or
\* dicts, and NoText stands for it where they are strings.
None == [none |-> TRUE]
NoText == "None"

\* ------------------------------------------------------- generic helpers

Range(s) == {s[k] : k \in DOMAIN s}

RECURSIVE SumSeq(_)
SumSeq(s) == IF s = <<>> THEN 0 ELSE Head(s) + SumSeq(Tail(s))

RECURSIVE SumOver(_, _)
\* sum(f[x] for x in S)
SumOver(f, S) ==
    IF S = {} THEN 0
    ELSE LET x == CHOOSE y \in S : TRUE IN f[x] + SumOver(f, S \ {x})

Min(a, b) == IF a < b THEN a ELSE b
Max(a, b) == IF a > b THEN a ELSE b

\* Python's d[k] = v on a dict: the key is added when absent.
DictSet(d, k, v) == [x \in (DOMAIN d) \cup {k} |-> IF x = k THEN v ELSE d[x]]

\* The empty dict {}.
EmptyDict == [x \in {} |-> x]

\* list.remove(x): the first occurrence goes.
RECURSIVE ListRemove(_, _)
ListRemove(s, x) ==
    IF s = <<>> THEN <<>>
    ELSE IF Head(s) = x THEN Tail(s)
    ELSE <<Head(s)>> \o ListRemove(Tail(s), x)

\* ------------------------------------------- the source platform (fixture)

\* The organization the collector talks to: what each listing returns when
\* its HTTP request succeeds.
OrgUrl == "https://dev.azure.com/org"

ProjectNames == <<"P1", "P2">>

Platform(p) ==
    IF p = "P1" THEN
      [repos |-> <<[name |-> "r1", id |-> "id-P1-r1", size |-> 10, webUrl |-> "u-P1-r1"],
                   [name |-> "r2", id |-> "id-P1-r2", size |-> 20, webUrl |-> "u-P1-r2"]>>,
       tfvc |-> TRUE,
       pipelines |-> 2,
       build_defs |-> <<"build", "yaml">>,
       release_defs |-> 1,
       wit |-> <<[name |-> "Bug", isCustomType |-> FALSE],
                 [name |-> "Risk", isCustomType |-> TRUE]>>,
       wi_counts |-> [t \in {"Bug", "Risk"} |-> IF t = "Bug" THEN 3 ELSE 1],
       custom_fields |-> 21,
       teams |-> 1,
       service_connections |-> 2,
       variable_groups |-> 1,
       test_plans |-> 1]
    ELSE
      [repos |-> <<[name |-> "r1", id |-> "id-P2-r1", size |-> 5, webUrl |-> "u-P2-r1"]>>,
       tfvc |-> TRUE,
       pipelines |-> 1,
       build_defs |-> <<"build">>,
       release_defs |-> 2,
       wit |-> <<[name |-> "Bug", isCustomType |-> FALSE],
                 [name |-> "Gate", isCustomType |-> TRUE]>>,
       wi_counts |-> [t \in {"Bug", "Gate"} |-> 2],
       custom_fields |-> 1,
       teams |-> 2,
       service_connections |-> 1,
       variable_groups |-> 2,
       test_plans |-> 2]

\* The collector calls of one project scan whose HTTP request may fail.
Categories ==
    {"repositories", "tfvc", "pipelines", "build_definitions",
     "release_definitions", "work_item_counts", "work_item_types",
     "teams", "service_connections", "variable_groups", "test_plans"}

NoFault == "none"

\* The HTTP failure an un-isolated collector call raises, as str(e).
HttpError(call) == "request failed: " \o call

\* A list of n opaque items (only its length is read).
ListOf(n) == [k \in 1..n |-> k]

\* ------------------------------------------------ ado_client.py: collector
\* `fault` names the one request of this project scan that fails (NoFault:
\* none does).  Each operator returns what the method returns; a method that
\* lets the failure out returns [raised |-> TRUE, error |-> str(e)].

get_projects(fails) ==
    IF fails THEN [raised |-> TRUE, error |-> HttpError("projects")]
    ELSE [raised |-> FALSE, value |-> [k \in DOMAIN ProjectNames |-> [name |-> ProjectNames[k]]]]

\* Lines 106-118.  With a project, its repositories, the failure of the
\* request let out.  With none (None or ""), the repositories of every
\* project listed, one after the other; a failure of the listing gets out,
\* the failure of a project's request is swallowed and its repositories are
\* left out (the one request that fails is the first project's).
get_repositories(project, fault) ==
    IF project \notin {NoText, ""}
    THEN IF fault = "repositories"
         THEN [raised |-> TRUE, error |-> HttpError("git/repositories")]
         ELSE [raised |-> FALSE, value |-> Platform(project).repos]
    ELSE LET listed == get_projects(fault = "projects")
             repos[k \in 0..Len(ProjectNames)] ==
                 IF k = 0 THEN <<>>
                 ELSE repos[k - 1]
                      \o (IF fault = "repositories" /\ k = 1 THEN <<>>
                          ELSE Platform(listed.value[k].name).repos)
         IN IF listed.raised THEN listed
            ELSE [raised |-> FALSE, value |-> repos[Len(listed.value)]]

check_tfvc(project, fault) ==
    IF fault = "tfvc" THEN FALSE ELSE Platform(project).tfvc

get_pipelines(project, fault) ==
    IF fault = "pipelines" THEN <<>> ELSE ListOf(Platform(project).pipelines)

get_build_definitions(project, fault) ==
    IF fault = "build_definitions" THEN <<>>
    ELSE [k \in DOMAIN Platform(project).build_defs |-> [type |-> Platform(project).build_defs[k]]]

get_release_definitions(project, fault) ==
    IF fault = "release_definitions" THEN <<>> ELSE ListOf(Platform(project).release_defs)

get_work_item_types(project, failed) ==
    IF failed THEN <<>> ELSE Platform(project).wit

\* The types are listed first (a request of its own), then one WIQL query
\* per type: a query that raises counts 0, a non-200 answer leaves the type
\* out of the dict.
get_work_item_counts_by_type(project, fault) ==
    LET types == get_work_item_types(project, fault = "work_item_counts_listing")
        names == {types[k].name : k \in DOMAIN types}
    IN IF fault = "work_item_counts_status" THEN EmptyDict
       ELSE [t \in names |-> IF fault = "work_item_counts" THEN 0
                             ELSE Platform(project).wi_counts[t]]

get_custom_fields(project, fault) ==
    IF fault = "custom_fields" THEN <<>> ELSE ListOf(Platform(project).custom_fields)

get_teams(project, fault) ==
    IF fault = "teams" THEN <<>> ELSE ListOf(Platform(project).teams)

get_service_connections(project, fault) ==
    IF fault = "service_connections" THEN <<>>
    ELSE ListOf(Platform(project).service_connections)

get_variable_groups(project, fault) ==
    IF fault = "variable_groups" THEN <<>> ELSE ListOf(Platform(project).variable_groups)

get_test_plans(project, fault) ==
    IF fault = "test_plans" THEN <<>> ELSE ListOf(Platform(project).test_plans)

\* Every request a backend project scan makes.
BackendCalls ==
    Categories \cup {"work_item_counts_listing", "work_item_counts_status"}

\* [t["name"] for t in work_item_types if t.get("isCustomType", False)]
CustomTypeNames(types) ==
    LET custom == SelectSeq(types, LAMBDA t : IF "isCustomType" \in DOMAIN t
                                              THEN t.isCustomType ELSE FALSE)
    IN [k \in DOMAIN custom |-> custom[k].name]

\* len([d for d in build_defs if d.get("type") == "build"])
ClassicCount(build_defs) == Len(SelectSeq(build_defs, LAMBDA d : d.type = "build"))

\* ------------------------------------------- main.py: scan_project_async

\* The record of one project, or the failure the call lets out.
scan_project_async(project_name, fault) ==
    LET repos == get_repositories(project_name, fault)
        tfvc_used == check_tfvc(project_name, fault)
        pipelines == get_pipelines(project_name, fault)
        build_defs == get_build_definitions(project_name, fault)
        release_defs == get_release_definitions(project_name, fault)
        work_item_counts == get_work_item_counts_by_type(project_name, fault)
        work_item_types == get_work_item_types(project_name, fault = "work_item_types")
        teams == get_teams(project_name, fault)
        service_connections == get_service_connections(project_name, fault)
        variable_groups == get_variable_groups(project_name, fault)
        test_plans == get_test_plans(project_name, fault)
    IN IF repos.raised THEN repos
       ELSE [raised |-> FALSE,
             value |->
               [name |-> project_name,
                repositories |->
                  [count |-> Len(repos.value),
                   tfvc_used |-> tfvc_used,
                   items |-> [k \in DOMAIN repos.value |->
                                [name |-> repos.value[k].name, id |-> repos.value[k].id,
                                 size |-> repos.value[k].size, url |-> repos.value[k].webUrl]]],
                pipelines |->
                  [yaml_count |-> Len(pipelines),
                   build_definitions |-> Len(build_defs),
                   release_definitions |-> Len(release_defs),
                   classic_count |-> ClassicCount(build_defs)],
                work_items |->
                  [total |-> SumOver(work_item_counts, DOMAIN work_item_counts),
                   by_type |-> work_item_counts,
                   custom_types |-> CustomTypeNames(work_item_types),
                   custom_fields |-> 0],
                teams |-> [count |-> Len(teams)],
                dependencies |->
                  [service_connections |-> Len(service_connections),
                   variable_groups |-> Len(variable_groups)],
                test_plans |-> [count |-> Len(test_plans)]]]

\* -------------------------- scanner.py: _scan_project and _result_to_dict

scan_project_cli(project_name, fault) ==
    LET repos == get_repositories(project_name, fault)
        tfvc_used == check_tfvc(project_name, fault)
        pipelines == get_pipelines(project_name, fault)
        build_defs == get_build_definitions(project_name, fault)
        release_defs == get_release_definitions(project_name, fault)
        work_item_types == get_work_item_types(project_name, fault = "work_item_types")
        work_item_counts == get_work_item_counts_by_type(project_name, fault)
        custom_fields == get_custom_fields(project_name, fault)
        teams == get_teams(project_name, fault)
        service_connections == get_service_connections(project_name, fault)
        variable_groups == get_variable_groups(project_name, fault)
        test_plans == get_test_plans(project_name, fault)
    IN IF repos.raised THEN repos
       ELSE [raised |-> FALSE,
             value |->
               [name |-> project_name,
                repositories |->
                  [count |-> Len(repos.value),
                   tfvc_used |-> tfvc_used,
                   items |-> [k \in DOMAIN repos.value |->
                                [name |-> repos.value[k].name, size |-> repos.value[k].size]]],
                pipelines |->
                  [yaml_count |-> Len(pipelines),
                   build_definitions |-> Len(build_defs),
                   release_definitions |-> Len(release_defs),
                   classic_count |-> ClassicCount(build_defs)],
                work_items |->
                  [total |-> SumOver(work_item_counts, DOMAIN work_item_counts),
                   by_type |-> work_item_counts,
                   custom_types |-> CustomTypeNames(work_item_types),
                   custom_fields |-> Len(custom_fields)],
                teams |-> [count |-> Len(teams)],
                dependencies |->
                  [service_connections |-> Len(service_connections),
                   variable_groups |-> Len(variable_groups)],
                test_plans |-> [count |-> Len(test_plans)]]]

\* ------------------------------------------------ scanner.py: the scoring

\* _score_to_rating with both thresholds taken inclusively.
score_to_rating_inclusive(score) ==
    IF score <= 35 THEN "Low" ELSE IF score <= 65 THEN "Medium" ELSE "High"

score_to_rating(score) ==
    IF score < 35 THEN "Low" ELSE IF score < 65 THEN "Medium" ELSE "High"

estimate_effort(score, category) ==
    IF score < 35 THEN "1-2 days" ELSE IF score < 65 THEN "1-2 weeks" ELSE "2+ weeks"

score_repos(summary) ==
    LET s0 == 20
        s1 == IF summary.tfvc_projects > 0 THEN s0 + 40 ELSE s0
        score == IF summary.total_repositories > 50 THEN s1 + 20
                 ELSE IF summary.total_repositories > 20 THEN s1 + 10 ELSE s1
    IN [score |-> Min(score, 100), rating |-> score_to_rating(score),
        effort |-> estimate_effort(score, "repos")]

\* int(x / y * 50) in double arithmetic, 0 <= x <= y: the quotient x / y is
\* rounded to a double, the product with 50 is rounded again, and int() cuts
\* the fraction.  When 50x/y is not a whole number the roundings cannot move
\* the product across an integer; when it is the whole number k, the product
\* is k or the double just below k.  Over k in 0..50 the second happens for
\* k = 29 alone ((29/50)*50 = 28.999999999999996).
ShortProducts == {29}

IntRatioTimes50(x, y) ==
    LET k == (50 * x) \div y
    IN IF (50 * x) % y = 0 /\ k \in ShortProducts THEN k - 1 ELSE k

\* _score_pipelines with the ratio taken in percent and the result not
\* clamped.
score_pipelines_percent(summary) ==
    LET s0 == 30
        s1 == IF summary.classic_pipelines > 0
              THEN s0 + 2 * IntRatioTimes50(summary.classic_pipelines,
                                            Max(summary.total_pipelines, 1))
              ELSE s0
        score == IF summary.total_pipelines > 100 THEN s1 + 20
                 ELSE IF summary.total_pipelines > 50 THEN s1 + 10 ELSE s1
    IN [score |-> score, rating |-> score_to_rating(score),
        effort |-> estimate_effort(score, "pipelines")]

score_pipelines(summary) ==
    LET s0 == 30
        s1 == IF summary.classic_pipelines > 0
              THEN s0 + IntRatioTimes50(summary.classic_pipelines,
                                        Max(summary.total_pipelines, 1))
              ELSE s0
        score == IF summary.total_pipelines > 100 THEN s1 + 20
                 ELSE IF summary.total_pipelines > 50 THEN s1 + 10 ELSE s1
    IN [score |-> Min(score, 100), rating |-> score_to_rating(score),
        effort |-> estimate_effort(score, "pipelines")]

score_work_items(summary, projects) ==
    LET total_custom_fields ==
            SumSeq([k \in DOMAIN projects |-> projects[k].work_items.custom_fields])
        s0 == 25
        s1 == IF total_custom_fields > 20 THEN s0 + 30
              ELSE IF total_custom_fields > 10 THEN s0 + 15 ELSE s0
        score == IF summary.total_work_items > 10000 THEN s1 + 25
                 ELSE IF summary.total_work_items > 5000 THEN s1 + 15
                 ELSE IF summary.total_work_items > 1000 THEN s1 + 5 ELSE s1
    IN [score |-> Min(score, 100), rating |-> score_to_rating(score),
        effort |-> estimate_effort(score, "work_items")]

\* The blockers with the custom types of the first project record only.
Blockers_first_project(summary, projects) ==
    LET custom_types ==
            UNION {Range(projects[k].work_items.custom_types) : k \in DOMAIN projects \cap {1}}
    IN (IF summary.tfvc_projects > 0
        THEN <<[n |-> summary.tfvc_projects,
                text |-> "project(s) use TFVC - requires special handling"]>>
        ELSE <<>>)
       \o
       (IF summary.classic_pipelines > 0
        THEN <<[n |-> summary.classic_pipelines,
                text |-> "Classic release pipeline(s) need manual conversion"]>>
        ELSE <<>>)
       \o
       (IF custom_types # {}
        THEN <<[n |-> Cardinality(custom_types),
                text |-> "custom work item type(s) need mapping"]>>
        ELSE <<>>)

\* The blockers, in the order they are appended; each f-string is kept as
\* its number and its fixed text.
Blockers(summary, projects) ==
    LET custom_types ==
            UNION {Range(projects[k].work_items.custom_types) : k \in DOMAIN projects}
    IN (IF summary.tfvc_projects > 0
        THEN <<[n |-> summary.tfvc_projects,
                text |-> "project(s) use TFVC - requires special handling"]>>
        ELSE <<>>)
       \o
       (IF summary.classic_pipelines > 0
        THEN <<[n |-> summary.classic_pipelines,
                text |-> "Classic release pipeline(s) need manual conversion"]>>
        ELSE <<>>)
       \o
       (IF custom_types # {}
        THEN <<[n |-> Cardinality(custom_types),
                text |-> "custom work item type(s) need mapping"]>>
        ELSE <<>>)

\* Lines 151-166: the counts over the project records.
summary_counts(projects) ==
    [total_projects |-> Len(projects),
     total_repositories |->
         SumSeq([k \in DOMAIN projects |-> projects[k].repositories.count]),
     tfvc_projects |->
         SumSeq([k \in DOMAIN projects |->
                    IF projects[k].repositories.tfvc_used THEN 1 ELSE 0]),
     total_pipelines |->
         SumSeq([k \in DOMAIN projects |->
                    projects[k].pipelines.yaml_count
                    + projects[k].pipelines.release_definitions]),
     classic_pipelines |->
         SumSeq([k \in DOMAIN projects |-> projects[k].pipelines.release_definitions]),
     total_work_items |->
         SumSeq([k \in DOMAIN projects |-> projects[k].work_items.total]),
     total_test_plans |->
         SumSeq([k \in DOMAIN projects |-> projects[k].test_plans.count]),
     total_service_connections |->
         SumSeq([k \in DOMAIN projects |->
                    projects[k].dependencies.service_connections])]

\* The summary with the overall score rounded to the nearest integer.
summary_scored_nearest(counts, projects) ==
    LET repositories == score_repos(counts)
        pipelines == score_pipelines(counts)
        work_items == score_work_items(counts, projects)
        overall == (repositories.score + pipelines.score + work_items.score + 1) \div 3
    IN [total_projects |-> counts.total_projects,
        total_repositories |-> counts.total_repositories,
        tfvc_projects |-> counts.tfvc_projects,
        total_pipelines |-> counts.total_pipelines,
        classic_pipelines |-> counts.classic_pipelines,
        total_work_items |-> counts.total_work_items,
        total_test_plans |-> counts.total_test_plans,
        total_service_connections |-> counts.total_service_connections,
        complexity |->
          [repositories |-> repositories, pipelines |-> pipelines,
           work_items |-> work_items, overall |-> overall,
           rating |-> score_to_rating(overall)],
        blockers |-> Blockers(counts, projects)]

\* Lines 168-194: the scores, the overall score and the blockers are added
\* to the dict of counts.
summary_scored(counts, projects) ==
    LET repositories == score_repos(counts)
        pipelines == score_pipelines(counts)
        work_items == score_work_items(counts, projects)
        overall == (repositories.score + pipelines.score + work_items.score) \div 3
    IN [total_projects |-> counts.total_projects,
        total_repositories |-> counts.total_repositories,
        tfvc_projects |-> counts.tfvc_projects,
        total_pipelines |-> counts.total_pipelines,
        classic_pipelines |-> counts.classic_pipelines,
        total_work_items |-> counts.total_work_items,
        total_test_plans |-> counts.total_test_plans,
        total_service_connections |-> counts.total_service_connections,
        complexity |->
          [repositories |-> repositories, pipelines |-> pipelines,
           work_items |-> work_items, overall |-> overall,
           rating |-> score_to_rating(overall)],
        blockers |-> Blockers(counts, projects)]

\* The counts are computed once and the scores are taken from that value,
\* as the code reads them from the dict it has built.
calculate_summary(projects) ==
    CHOOSE summary \in {summary_scored(counts, projects) :
                           counts \in {summary_counts(projects)}} : TRUE

\* ------------------------------------------------------------------ state

VARIABLES
    config,                 \* ~/.ado-readiness/config.yaml: None, or the stored settings
    github_config,          \* ~/.ado-readiness/github_config.yaml: None, or token and org
    cache,                  \* ~/.ado-readiness/last_scan.json: None, or the stored result
    scan_results,           \* AppState.scan_results
    scan_in_progress,       \* AppState.scan_in_progress
    scan_progress,          \* AppState.scan_progress
    migration_in_progress,  \* AppState.migration_in_progress
    migration_progress,     \* AppState.migration_progress
    websocket_connections,  \* AppState.websocket_connections
    running,                \* the task holding the event loop, or NoTask
    scan,                   \* the run_scan tasks: position and locals
    mig,                    \* the run_migration tasks: position and locals
    response,               \* the answer to the start request handled last
    cli,                    \* the CLI scan command run last
    env,                    \* what the environment may do in this behaviour
    call,                   \* the scanner function applied last: argument and result
    serving                 \* the backend serves requests: lifespan has not shut it down

vars == <<config, github_config, cache, scan_results, scan_in_progress, scan_progress,
          migration_in_progress, migration_progress, websocket_connections,
          running, scan, mig, response, cli, env, call, serving>>

appVars == <<scan_results, scan_in_progress, scan_progress,
             migration_in_progress, migration_progress>>

Subscribers == 1..MaxSubscribers

ScanIds == 1..Max(MaxScans, MaxCollectScans)
MigIds == 1..MaxMigrations

\* No task holds the event loop.
NoTask == <<"none", 0>>
ScanTask(t) == <<"scan", t>>
MigTask(t) == <<"migration", t>>

StoredConfig == [organization_url |-> OrgUrl, pat |-> "ado-pat"]
StoredGithub == [token |-> "gh-pat", org |-> "gh-org"]

\* config.py
config_exists == config # None

\* The tag yaml gives a plain (unquoted) scalar with this text: of the texts
\* the model uses, those its implicit resolvers take for null, a boolean or
\* an integer, and str for the others.
YamlTag(text) ==
    IF text \in {"", "~", "null"} THEN "null"
    ELSE IF text \in {"true", "no"} THEN "bool"
    ELSE IF text \in {"123"} THEN "int"
    ELSE "str"

\* yaml.safe_dump of a str with every scalar written plain.
safe_dump_plain(text) == [style |-> "plain", text |-> text]

\* yaml.safe_dump of a str: the scalar is written plain when a plain scalar
\* with its text is read back as a str, and in quotes otherwise.
safe_dump(text) ==
    [style |-> IF YamlTag(text) = "str" THEN "plain" ELSE "quoted", text |-> text]

\* yaml.safe_load of a scalar: a quoted one is a str, a plain one has the
\* tag its text resolves to.
safe_load(scalar) ==
    [tag |-> IF scalar.style = "quoted" THEN "str" ELSE YamlTag(scalar.text),
     text |-> scalar.text]

\* save_config(config): the document written to the file; default_project
\* is written when it is set and not empty.
save_config(settings) ==
    LET keys == {"organization_url", "pat"}
                \cup (IF "default_project" \in DOMAIN settings
                         /\ settings.default_project \notin {NoText, ""}
                      THEN {"default_project"} ELSE {})
    IN [k \in keys |-> safe_dump(settings[k])]

\* get_config(): FileNotFoundError without the file; otherwise
\* ADOConfig(**data) over the document read, which fails to validate when
\* a required field is not a str.
ConfigNotFound == "Configuration not found. Run 'ado-readiness configure' first."

get_config ==
    IF config = None THEN [raised |-> TRUE, error |-> ConfigNotFound]
    ELSE LET data == [k \in DOMAIN config |-> safe_load(config[k])]
         IN IF \E k \in {"organization_url", "pat"} : data[k].tag # "str"
            THEN [raised |-> TRUE, error |-> "ValidationError"]
            ELSE [raised |-> FALSE,
                  value |-> [organization_url |-> data.organization_url.text,
                             pat |-> data.pat.text,
                             default_project |->
                                 IF "default_project" \in DOMAIN data
                                    /\ data.default_project.tag # "null"
                                 THEN data.default_project.text ELSE NoText]]

\* A task that was never created.  Beside the locals of the coroutine a task
\* record keeps what the properties read back: the events it published,
\* whether a send of its broadcasts raised, and for a scan the stored result
\* it saw at its first step (seen) and at its last (final), the status of
\* scan_progress at its last step (ended), the fault of each collection it
\* made, and how often it cleared the in-progress flag.  Where the
\* environment keeps the history of the publishes (env.history) it also
\* keeps, of its current or last call of broadcast_progress, the sends made
\* (sent: to whom, and whether the send raised) and the subscribers
\* registered without a break since the call began (stayed), and the
\* subscribers whose send raised in the call before and that have been
\* registered without a break since that call began (failed_before).
NoScanTask ==
    [pc |-> "none", filter |-> NoText, org |-> NoText, projects |-> <<>>, i |-> 0,
     results |-> <<>>, error |-> NoText, bidx |-> 0, ret |-> NoText,
     published |-> <<>>, send_raised |-> FALSE,
     sent |-> <<>>, stayed |-> {}, failed_before |-> {},
     seen |-> None, final |-> None, ended |-> NoText, faults |-> <<>>, cleared |-> 0]

NoMigTask ==
    [pc |-> "none", repos |-> <<>>, org |-> NoText, k |-> 0, info |-> None,
     outcome |-> None, error |-> NoText, bidx |-> 0, ret |-> NoText,
     published |-> <<>>, send_raised |-> FALSE,
     sent |-> <<>>, stayed |-> {}, failed_before |-> {}, seen |-> None, cleared |-> 0]

\* No function of the scanner applied outside a scan.
NoCall == [op |-> "none", arg |-> None, done |-> FALSE, result |-> None]

\* No command run yet (runs = 0: the other fields say nothing).
NoCli == [runs |-> 0, pc |-> "idle", filter |-> NoText, org |-> NoText,
          exit_code |-> 0, results |-> None, collected |-> 0]

InitApp ==
    /\ github_config = None
    /\ cache = None
    /\ scan_results = None
    /\ scan_in_progress = FALSE
    /\ scan_progress = EmptyDict
    /\ migration_in_progress = FALSE
    /\ migration_progress = EmptyDict
    /\ websocket_connections = <<>>
    /\ running = NoTask
    /\ scan = [t \in ScanIds |-> NoScanTask]
    /\ mig = [t \in MigIds |-> NoMigTask]
    /\ response = None
    /\ cli = NoCli

\* ----------------------------------------------- main.py: config endpoints

\* POST /api/config
save_configuration ==
    /\ serving
    /\ running = NoTask
    /\ \E with_token \in env.github :
         /\ config' = save_config(StoredConfig)
         /\ github_config' = IF with_token THEN StoredGithub ELSE github_config
    /\ UNCHANGED <<cache, appVars, websocket_connections, running,
                   scan, mig, response, cli, env, call, serving>>

\* DELETE /api/config
delete_configuration ==
    /\ serving
    /\ running = NoTask
    /\ config' = None
    /\ UNCHANGED <<github_config, cache, appVars, websocket_connections,
                   running, scan, mig, response, cli, env, call, serving>>

\* ------------------------------------------------------ main.py: websocket

\* websocket_progress up to its receive loop: accept, then append.
websocket_connect(s) ==
    /\ serving
    /\ running = NoTask
    /\ s \notin Range(websocket_connections)
    /\ websocket_connections' = Append(websocket_connections, s)
    /\ UNCHANGED <<config, github_config, cache, appVars, running,
                   scan, mig, response, cli, env, call, serving>>

\* The task record after subscriber s has left the list.
Unregistered(task, s) ==
    [task EXCEPT !.stayed = @ \ {s}, !.failed_before = @ \ {s}]

\* websocket_progress on WebSocketDisconnect: remove.
websocket_disconnect(s) ==
    /\ running = NoTask
    /\ s \in Range(websocket_connections)
    /\ websocket_connections' = ListRemove(websocket_connections, s)
    /\ scan' = [t \in ScanIds |-> Unregistered(scan[t], s)]
    /\ mig' = [t \in MigIds |-> Unregistered(mig[t], s)]
    /\ UNCHANGED <<config, github_config, cache, appVars, running,
                   response, cli, env, call, serving>>

\* lifespan, lines 28-31, after the yield: at shutdown the list of
\* connections is cleared; no request is served from then on.  A task that
\* is still pending goes on when the event loop gives it a turn.
lifespan ==
    /\ serving
    /\ running = NoTask
    /\ serving' = FALSE
    /\ websocket_connections' = <<>>
    /\ scan' = [t \in ScanIds |-> [scan[t] EXCEPT !.stayed = {}, !.failed_before = {}]]
    /\ mig' = [t \in MigIds |-> [mig[t] EXCEPT !.stayed = {}, !.failed_before = {}]]
    /\ UNCHANGED <<config, github_config, cache, appVars, running,
                   response, cli, env, call>>

\* broadcast_progress(data), called by a task: the loop starts at index 0.
\* `published` keeps every event the task has passed to the call, the last
\* being the one the loop is sending.
FailedSends(task) ==
    {s \in task.stayed :
        \E k \in DOMAIN task.sent : task.sent[k] = [to |-> s, raised |-> TRUE]}

BroadcastCall(task, data, ret) ==
    [task EXCEPT !.pc = "bcast", !.bidx = 0, !.ret = ret,
                 !.published = Append(@, data),
                 !.sent = <<>>,
                 !.stayed = IF env.history THEN Range(websocket_connections) ELSE {},
                 !.failed_before = FailedSends(task)]

\* One turn of the loop of broadcast_progress for the task record `task`:
\* with a connection left at the index the event is sent to it and the task
\* waits on the send; the loop goes on whether the send returns or raises.
\* With none left the call returns and the task goes on without giving up
\* the event loop.
BroadcastMore(task) == task.bidx < Len(websocket_connections)

\* broadcast_progress without the try of lines 105-108: an exception of
\* send_json leaves the loop and reaches the task that called.
BroadcastAdvanceRaising(task, raised) ==
    IF BroadcastMore(task)
    THEN IF raised
         THEN [task EXCEPT !.pc = "except", !.error = "send failed",
                           !.send_raised = TRUE]
         ELSE [task EXCEPT !.bidx = @ + 1,
                           !.sent = IF env.history
                                    THEN Append(@, [to |-> websocket_connections[task.bidx + 1],
                                                    raised |-> raised])
                                    ELSE @]
    ELSE [task EXCEPT !.pc = task.ret]

BroadcastAdvance(task, raised) ==
    IF BroadcastMore(task)
    THEN [task EXCEPT !.bidx = @ + 1, !.send_raised = @ \/ raised,
                      !.sent = IF env.history
                               THEN Append(@, [to |-> websocket_connections[task.bidx + 1],
                                               raised |-> raised])
                               ELSE @]
    ELSE [task EXCEPT !.pc = task.ret]

\* ---------------------------------------------------- main.py: start_scan

\* start_scan without lines 194-195, the check of scan_in_progress.
start_scan_unguarded(project_filter) ==
    /\ serving
    /\ running = NoTask
    /\ IF ~config_exists
       THEN /\ response' = [op |-> "start_scan", status |-> 400]
            /\ UNCHANGED scan
       ELSE \E t \in ScanIds :
              /\ t <= env.scans
              /\ scan[t].pc = "none"
              /\ \A u \in ScanIds : u < t => scan[u].pc # "none"
              /\ scan' = [scan EXCEPT ![t] = [NoScanTask EXCEPT !.pc = "created",
                                                              !.filter = project_filter]]
              /\ response' = [op |-> "start_scan", status |-> 200]
    /\ UNCHANGED <<config, github_config, cache, scan_results, scan_in_progress,
                   scan_progress, migration_in_progress, migration_progress,
                   websocket_connections, running, mig, cli, env, call, serving>>

\* POST /api/scan
start_scan(project_filter) ==
    /\ serving
    /\ running = NoTask
    /\ IF scan_in_progress
       THEN /\ response' = [op |-> "start_scan", status |-> 409]
            /\ UNCHANGED scan
       ELSE IF ~config_exists
       THEN /\ response' = [op |-> "start_scan", status |-> 400]
            /\ UNCHANGED scan
       ELSE \E t \in ScanIds :
              /\ t <= env.scans
              /\ scan[t].pc = "none"
              /\ \A u \in ScanIds : u < t => scan[u].pc # "none"
              /\ scan' = [scan EXCEPT ![t] = [NoScanTask EXCEPT !.pc = "created",
                                                              !.filter = project_filter]]
              /\ response' = [op |-> "start_scan", status |-> 200]
    /\ UNCHANGED <<config, github_config, cache, appVars, websocket_connections, running, mig, cli, env, call, serving>>

\* ------------------------------------------------------ main.py: run_scan

MayRun(self) == running \in {NoTask, self}

\* Lines 208-226: the flag, the first snapshot, the configuration, the
\* project list.
ScanBegin(t) ==
    /\ scan[t].pc = "created"
    /\ MayRun(ScanTask(t))
    /\ scan_in_progress' = TRUE
    /\ scan_progress' = [status |-> "starting", progress |-> 0]
    /\ \E listing_fails \in env.listing :
         LET cfg == get_config
             projects == IF scan[t].filter \notin {NoText, ""}
                         THEN [raised |-> FALSE, value |-> <<[name |-> scan[t].filter]>>]
                         ELSE get_projects(listing_fails)
             began == [scan[t] EXCEPT !.seen = scan_results]
         IN scan' = [scan EXCEPT ![t] =
                IF cfg.raised THEN [began EXCEPT !.pc = "except", !.error = cfg.error]
                ELSE IF projects.raised
                THEN [began EXCEPT !.pc = "except", !.error = projects.error]
                ELSE [began EXCEPT !.pc = "loop", !.org = cfg.value.organization_url,
                                   !.projects = projects.value,
                                   !.i = 0, !.results = <<>>]]
    /\ running' = ScanTask(t)
    /\ UNCHANGED <<config, github_config, cache, scan_results, migration_in_progress,
                   migration_progress, websocket_connections, mig,
                   response, cli, env, call, serving>>

\* int((i / total) * 100) in double arithmetic, 0 <= i < total (line 232):
\* the quotient is rounded to a double, the product with 100 is rounded
\* again, and int() cuts the fraction.  When 100i/total is not a whole
\* number the roundings cannot move the product across an integer; when it
\* is the whole number k, the product is k or the double just below k.  Over
\* k in 0..99 the second happens for 29, 57 and 58 ((29/50)*100 =
\* 57.99999999999999).
ShortPercents == {29, 57, 58}

IntRatioTimes100(i, total) ==
    LET k == (100 * i) \div total
    IN IF (100 * i) % total = 0 /\ k \in ShortPercents THEN k - 1 ELSE k

\* The snapshot of lines 230-236 for the project at index i (from 0).
ScanningProgress(task) ==
    [status |-> "scanning",
     progress |-> IntRatioTimes100(task.i, Len(task.projects)),
     current_project |-> task.projects[task.i + 1].name,
     projects_scanned |-> task.i,
     total_projects |-> Len(task.projects)]

\* {"type": kind, **progress}
Event(kind, progress) ==
    [x \in (DOMAIN progress) \cup {"type"} |-> IF x = "type" THEN kind ELSE progress[x]]

\* Lines 228-237: the head of the loop over the projects; with a project
\* left, its snapshot and the call of broadcast_progress.
ScanLoop(t) ==
    /\ scan[t].pc = "loop"
    /\ MayRun(ScanTask(t))
    /\ IF scan[t].i < Len(scan[t].projects)
       THEN /\ scan_progress' = ScanningProgress(scan[t])
            /\ scan' = [scan EXCEPT ![t] =
                   BroadcastCall(@, Event("scan", ScanningProgress(scan[t])), "collect")]
       ELSE /\ scan' = [scan EXCEPT ![t].pc = "summary"]
            /\ UNCHANGED scan_progress
    /\ running' = ScanTask(t)
    /\ UNCHANGED <<config, github_config, cache, scan_results, scan_in_progress,
                   migration_in_progress, migration_progress, websocket_connections, mig, response, cli, env, call, serving>>

\* broadcast_progress, lines 104-108, run by a scan task.
ScanBroadcast(t) ==
    /\ scan[t].pc = "bcast"
    /\ MayRun(ScanTask(t))
    /\ \E raised \in env.send_raises :
         /\ raised => BroadcastMore(scan[t])
         /\ scan' = [scan EXCEPT ![t] = BroadcastAdvance(@, raised)]
    /\ running' = IF BroadcastMore(scan[t]) THEN NoTask ELSE ScanTask(t)
    /\ UNCHANGED <<config, github_config, cache, appVars, websocket_connections,
                   mig, response, cli, env, call, serving>>

\* Lines 240-241: one project is collected and its record appended.
ScanCollect(t) ==
    /\ scan[t].pc = "collect"
    /\ MayRun(ScanTask(t))
    /\ \E fault \in env.faults :
         LET project_data == scan_project_async(scan[t].projects[scan[t].i + 1].name, fault)
         IN scan' = [scan EXCEPT ![t] =
                IF project_data.raised
                THEN [@ EXCEPT !.pc = "except", !.error = project_data.error,
                               !.faults = Append(@, fault)]
                ELSE [@ EXCEPT !.pc = "loop", !.i = @ + 1,
                               !.results = Append(@, project_data.value),
                               !.faults = Append(@, fault)]]
    /\ running' = ScanTask(t)
    /\ UNCHANGED <<config, github_config, cache, appVars, websocket_connections, mig, response, cli, env, call, serving>>

\* The dict `results` of run_scan as it is before line 247: the summary is
\* still the empty dict of line 224.
ScanResultNoSummary(org, projects) ==
    [organization_url |-> org, projects |-> projects, summary |-> EmptyDict]

\* The dict `results` of run_scan once the summary is in it.
ScanResult(org, projects) ==
    [organization_url |-> org,
     projects |-> projects,
     summary |-> calculate_summary(projects)]

\* Lines 243-251: the summary, the stored result, the terminal snapshot and
\* the call of broadcast_progress.
ScanSummary(t) ==
    /\ scan[t].pc = "summary"
    /\ MayRun(ScanTask(t))
    /\ scan_results' = ScanResult(scan[t].org, scan[t].results)
    /\ scan_progress' = [status |-> "completed", progress |-> 100]
    /\ scan' = [scan EXCEPT ![t] =
           BroadcastCall(@, Event("scan", [status |-> "completed", progress |-> 100]),
                         "close")]
    /\ running' = ScanTask(t)
    /\ UNCHANGED <<config, github_config, cache, scan_in_progress, migration_in_progress,
                   migration_progress, websocket_connections, mig,
                   response, cli, env, call, serving>>

\* Line 253: client.close().
ScanClose(t) ==
    /\ scan[t].pc = "close"
    /\ MayRun(ScanTask(t))
    /\ scan' = [scan EXCEPT ![t].pc = "finally"]
    /\ running' = ScanTask(t)
    /\ UNCHANGED <<config, github_config, cache, appVars, websocket_connections, mig, response, cli, env, call, serving>>

\* Lines 255-257: the handler of any exception of the try block.
ScanExcept(t) ==
    /\ scan[t].pc = "except"
    /\ MayRun(ScanTask(t))
    /\ scan_progress' = [status |-> "failed", error |-> scan[t].error]
    /\ scan' = [scan EXCEPT ![t] =
           BroadcastCall(@, Event("scan", [status |-> "failed", error |-> scan[t].error]),
                         "finally")]
    /\ running' = ScanTask(t)
    /\ UNCHANGED <<config, github_config, cache, scan_results, scan_in_progress,
                   migration_in_progress, migration_progress, websocket_connections, mig, response, cli, env, call, serving>>

\* run_scan with line 259 at the end of the try block instead of in a
\* finally: the flag is cleared on the normal path only.
ScanFinallyOnSuccess(t) ==
    /\ scan[t].pc = "finally"
    /\ MayRun(ScanTask(t))
    /\ scan_in_progress' = (scan_in_progress /\ scan[t].error # NoText)
    /\ scan' = [scan EXCEPT ![t].pc = "done",
                             ![t].cleared = IF scan[t].error = NoText THEN @ + 1 ELSE @,
                             ![t].final = scan_results,
                             ![t].ended = scan_progress.status]
    /\ running' = NoTask
    /\ UNCHANGED <<config, github_config, cache, scan_results, scan_progress,
                   migration_in_progress, migration_progress, websocket_connections, mig, response, cli, env, call, serving>>

\* Lines 258-259: finally.
ScanFinally(t) ==
    /\ scan[t].pc = "finally"
    /\ MayRun(ScanTask(t))
    /\ scan_in_progress' = FALSE
    /\ scan' = [scan EXCEPT ![t].pc = "done", ![t].cleared = @ + 1,
                             ![t].final = scan_results,
                             ![t].ended = scan_progress.status]
    /\ running' = NoTask
    /\ UNCHANGED <<config, github_config, cache, scan_results, scan_progress,
                   migration_in_progress, migration_progress, websocket_connections, mig, response, cli, env, call, serving>>

run_scan(t) ==
    \/ ScanBegin(t)
    \/ ScanLoop(t)
    \/ ScanBroadcast(t)
    \/ ScanCollect(t)
    \/ ScanSummary(t)
    \/ ScanClose(t)
    \/ ScanExcept(t)
    \/ ScanFinally(t)

\* ---------------------------------------------- main.py: start_migration

\* POST /api/migrate
start_migration(repos) ==
    /\ serving
    /\ running = NoTask
    /\ IF migration_in_progress
       THEN /\ response' = [op |-> "start_migration", status |-> 409]
            /\ UNCHANGED mig
       ELSE \E t \in MigIds :
              /\ t <= env.migrations
              /\ mig[t].pc = "none"
              /\ \A u \in MigIds : u < t => mig[u].pc # "none"
              /\ mig' = [mig EXCEPT ![t] = [NoMigTask EXCEPT !.pc = "created",
                                                           !.repos = repos]]
              /\ response' = [op |-> "start_migration", status |-> 200]
    /\ UNCHANGED <<config, github_config, cache, appVars, websocket_connections, running, scan, cli, env, call, serving>>

\* ------------------------------------------------- main.py: run_migration

\* A message and its length in characters.
Msg(text, len) == [text |-> text, len |-> len]

\* message[:n]
Truncate(m, n) == [m EXCEPT !.len = Min(@, n)]

ItemPending == [status |-> "pending", progress |-> 0]
ItemInProgress ==
    [status |-> "in_progress", progress |-> 0, message |-> Msg("Starting migration...", 21)]
ItemNotFound ==
    [status |-> "failed", progress |-> 0, message |-> Msg("Repo not found", 14)]
ItemCompleted ==
    [status |-> "completed", progress |-> 100, message |-> Msg("Migration completed!", 20)]
ItemFailed(message) ==
    [status |-> "failed", progress |-> 0,
     message |-> IF message.len > 0 THEN Truncate(message, 100)
                 ELSE Msg("Migration failed", 16)]

\* state.migration_progress["repos"][repo_name] = item
SetItem(progress, repo_name, item) ==
    [progress EXCEPT !.repos = DictSet(@, repo_name, item)]

\* Lines 356-363: the flag, the first snapshot, the configuration.
MigBegin(t) ==
    /\ mig[t].pc = "created"
    /\ MayRun(MigTask(t))
    /\ migration_in_progress' = TRUE
    /\ migration_progress' =
         [status |-> "starting", repos |-> [r \in Range(mig[t].repos) |-> ItemPending]]
    /\ LET cfg == get_config
       IN mig' = [mig EXCEPT ![t] =
              IF cfg.raised
              THEN [@ EXCEPT !.pc = "except", !.error = cfg.error, !.seen = scan_results]
              ELSE [@ EXCEPT !.pc = "loop", !.org = cfg.value.organization_url, !.k = 0,
                             !.seen = scan_results]]
    /\ running' = MigTask(t)
    /\ UNCHANGED <<config, github_config, cache, scan_results, scan_in_progress,
                   scan_progress, websocket_connections, scan,
                   response, cli, env, call, serving>>

\* Lines 365-371 and 414-415: the head of the loop over the repos; with a
\* repo left it becomes in_progress, with none left the batch is completed;
\* either way broadcast_progress is called.
MigLoop(t) ==
    /\ mig[t].pc = "loop"
    /\ MayRun(MigTask(t))
    /\ LET next == IF mig[t].k < Len(mig[t].repos)
                   THEN SetItem(migration_progress, mig[t].repos[mig[t].k + 1],
                                ItemInProgress)
                   ELSE DictSet(migration_progress, "status", "completed")
       IN /\ migration_progress' = next
          /\ mig' = [mig EXCEPT ![t] =
                 BroadcastCall(@, Event("migration", next),
                               IF mig[t].k < Len(mig[t].repos) THEN "resolve"
                               ELSE "finally")]
    /\ running' = MigTask(t)
    /\ UNCHANGED <<config, github_config, cache, scan_results, scan_in_progress,
                   scan_progress, migration_in_progress, websocket_connections, scan, response, cli, env, call, serving>>

\* broadcast_progress, lines 104-108, run by a migration task.
MigBroadcast(t) ==
    /\ mig[t].pc = "bcast"
    /\ MayRun(MigTask(t))
    /\ \E raised \in env.send_raises :
         /\ raised => BroadcastMore(mig[t])
         /\ mig' = [mig EXCEPT ![t] = BroadcastAdvance(@, raised)]
    /\ running' = IF BroadcastMore(mig[t]) THEN NoTask ELSE MigTask(t)
    /\ UNCHANGED <<config, github_config, cache, appVars, websocket_connections,
                   scan, response, cli, env, call, serving>>

\* Lines 376-379, the inner loop: the first repo of the project with the
\* name, None when the project has none.
FirstNamed(items, repo_name) ==
    LET hits == SelectSeq(items, LAMBDA r : r.name = repo_name)
    IN IF hits = <<>> THEN None ELSE Head(hits)

\* {"project": project["name"], **repo}
RepoInfo(project, repo) ==
    [x \in (DOMAIN repo) \cup {"project"} |-> IF x = "project" THEN project.name ELSE repo[x]]

\* Lines 374-379: repo_info after the loops over the projects from index n
\* on, `info` being its value before.  The break leaves the inner loop only.
RECURSIVE FindRepo(_, _, _, _)
FindRepo(projects, n, repo_name, info) ==
    IF n > Len(projects) THEN info
    ELSE LET hit == FirstNamed(projects[n].repositories.items, repo_name)
         IN FindRepo(projects, n + 1, repo_name,
                     IF hit = None THEN info ELSE RepoInfo(projects[n], hit))

NoneTypeError == "'NoneType' object is not subscriptable"

\* run_migration raising at line 387 instead of going on with the next repo.
MigResolveStrict(t) ==
    /\ mig[t].pc = "resolve"
    /\ MayRun(MigTask(t))
    /\ LET repo_name == mig[t].repos[mig[t].k + 1]
           repo_info == FindRepo(scan_results.projects, 1, repo_name, None)
       IN IF scan_results = None
          THEN /\ mig' = [mig EXCEPT ![t].pc = "except", ![t].error = NoneTypeError]
               /\ UNCHANGED migration_progress
          ELSE IF repo_info = None
          THEN /\ migration_progress' = SetItem(migration_progress, repo_name, ItemNotFound)
               /\ mig' = [mig EXCEPT ![t].pc = "except", ![t].error = "Repo not found"]
          ELSE /\ mig' = [mig EXCEPT ![t].pc = "exec", ![t].info = repo_info]
               /\ UNCHANGED migration_progress
    /\ running' = MigTask(t)
    /\ UNCHANGED <<config, github_config, cache, scan_results, scan_in_progress,
                   scan_progress, migration_in_progress, websocket_connections, scan, response, cli, env, call, serving>>

\* run_migration looking every repo up in the scan result that was stored
\* when the batch began.
MigResolveAtStart(t) ==
    /\ mig[t].pc = "resolve"
    /\ MayRun(MigTask(t))
    /\ LET repo_name == mig[t].repos[mig[t].k + 1]
           repo_info == FindRepo(mig[t].seen.projects, 1, repo_name, None)
       IN IF mig[t].seen = None
          THEN /\ mig' = [mig EXCEPT ![t].pc = "except", ![t].error = NoneTypeError]
               /\ UNCHANGED migration_progress
          ELSE IF repo_info = None
          THEN /\ migration_progress' = SetItem(migration_progress, repo_name, ItemNotFound)
               /\ mig' = [mig EXCEPT ![t].pc = "loop", ![t].k = @ + 1, ![t].info = None]
          ELSE /\ mig' = [mig EXCEPT ![t].pc = "exec", ![t].info = repo_info]
               /\ UNCHANGED migration_progress
    /\ running' = MigTask(t)
    /\ UNCHANGED <<config, github_config, cache, scan_results, scan_in_progress,
                   scan_progress, migration_in_progress, websocket_connections, scan, response, cli, env, call, serving>>

\* Lines 373-387: the repo is looked up in the stored scan result.
MigResolve(t) ==
    /\ mig[t].pc = "resolve"
    /\ MayRun(MigTask(t))
    /\ LET repo_name == mig[t].repos[mig[t].k + 1]
           repo_info == FindRepo(scan_results.projects, 1, repo_name, None)
       IN IF scan_results = None
          THEN /\ mig' = [mig EXCEPT ![t].pc = "except", ![t].error = NoneTypeError]
               /\ UNCHANGED migration_progress
          ELSE IF repo_info = None
          THEN /\ migration_progress' = SetItem(migration_progress, repo_name, ItemNotFound)
               /\ mig' = [mig EXCEPT ![t].pc = "loop", ![t].k = @ + 1, ![t].info = None]
          ELSE /\ mig' = [mig EXCEPT ![t].pc = "exec", ![t].info = repo_info]
               /\ UNCHANGED migration_progress
    /\ running' = MigTask(t)
    /\ UNCHANGED <<config, github_config, cache, scan_results, scan_in_progress,
                   scan_progress, migration_in_progress, websocket_connections, scan, response, cli, env, call, serving>>

\* execute_gei_migration, lines 440-489: the configuration is read again
\* (outside any try), then the GitHub token; with a token the command runs
\* in the executor and the task waits for it.
MigExec(t) ==
    /\ mig[t].pc = "exec"
    /\ MayRun(MigTask(t))
    /\ LET cfg == get_config
           no_pat == Msg("GitHub PAT not configured. Go to Configure page and add your GitHub token.", 74)
       IN IF cfg.raised
          THEN /\ mig' = [mig EXCEPT ![t].pc = "except", ![t].error = cfg.error]
               /\ running' = MigTask(t)
          ELSE IF github_config = None
          THEN /\ mig' = [mig EXCEPT ![t].pc = "result",
                                     ![t].outcome = [success |-> FALSE,
                                                     message |-> no_pat]]
               /\ running' = MigTask(t)
          ELSE /\ mig' = [mig EXCEPT ![t].pc = "tool"]
               /\ running' = NoTask
    /\ UNCHANGED <<config, github_config, cache, appVars, websocket_connections, scan, response, cli, env, call, serving>>

\* What the tool's run can come to, as execute_gei_migration returns it
\* (lines 491-502): exit code 0; a non-zero exit code with its output cut to
\* 200 characters (stderr, or stdout when stderr is empty, or "Unknown
\* error" when both are); an exception of subprocess.run.
ToolOutcome(kind) ==
    IF kind = "exit0" THEN [success |-> TRUE, message |-> Msg("Success", 7)]
    ELSE IF kind = "exit1" THEN [success |-> FALSE, message |-> Truncate(Msg("stderr", 300), 200)]
    ELSE IF kind = "exit1_stdout" THEN [success |-> FALSE, message |-> Truncate(Msg("stdout", 5), 200)]
    ELSE IF kind = "exit1_silent" THEN [success |-> FALSE, message |-> Msg("Unknown error", 13)]
    ELSE [success |-> FALSE, message |-> Msg("[Errno 2] No such file or directory: 'gh'", 41)]

ToolKinds == {"exit0", "exit1", "exit1_stdout", "exit1_silent", "exception"}

\* Line 489 onwards: the executor's future completes and the call returns.
MigTool(t) ==
    /\ mig[t].pc = "tool"
    /\ MayRun(MigTask(t))
    /\ \E kind \in env.tool :
         mig' = [mig EXCEPT ![t].pc = "result", ![t].outcome = ToolOutcome(kind)]
    /\ running' = MigTask(t)
    /\ UNCHANGED <<config, github_config, cache, appVars, websocket_connections, scan, response, cli, env, call, serving>>

\* Lines 399-412: the item's terminal status and the call of
\* broadcast_progress; the loop then goes to the next repo.
MigResult(t) ==
    /\ mig[t].pc = "result"
    /\ MayRun(MigTask(t))
    /\ LET repo_name == mig[t].repos[mig[t].k + 1]
           next == SetItem(migration_progress, repo_name,
                           IF mig[t].outcome.success THEN ItemCompleted
                           ELSE ItemFailed(mig[t].outcome.message))
       IN /\ migration_progress' = next
          /\ mig' = [mig EXCEPT ![t] =
                 BroadcastCall([@ EXCEPT !.k = @ + 1], Event("migration", next), "loop")]
    /\ running' = MigTask(t)
    /\ UNCHANGED <<config, github_config, cache, scan_results, scan_in_progress,
                   scan_progress, migration_in_progress, websocket_connections, scan, response, cli, env, call, serving>>

\* Lines 417-420: the handler of any exception of the try block.
MigExcept(t) ==
    /\ mig[t].pc = "except"
    /\ MayRun(MigTask(t))
    /\ LET next == DictSet(DictSet(migration_progress, "status", "failed"),
                           "error", mig[t].error)
       IN /\ migration_progress' = next
          /\ mig' = [mig EXCEPT ![t] =
                 BroadcastCall(@, Event("migration", next), "finally")]
    /\ running' = MigTask(t)
    /\ UNCHANGED <<config, github_config, cache, scan_results, scan_in_progress,
                   scan_progress, migration_in_progress, websocket_connections, scan, response, cli, env, call, serving>>

\* run_migration with line 422 at the end of the try block instead of in a
\* finally: the flag is cleared on the normal path only.
MigFinallyOnSuccess(t) ==
    /\ mig[t].pc = "finally"
    /\ MayRun(MigTask(t))
    /\ migration_in_progress' = (migration_in_progress /\ mig[t].error # NoText)
    /\ mig' = [mig EXCEPT ![t].pc = "done",
                           ![t].cleared = IF mig[t].error = NoText THEN @ + 1 ELSE @]
    /\ running' = NoTask
    /\ UNCHANGED <<config, github_config, cache, scan_results, scan_in_progress,
                   scan_progress, migration_progress, websocket_connections, scan, response, cli, env, call, serving>>

\* Lines 421-422: finally.
MigFinally(t) ==
    /\ mig[t].pc = "finally"
    /\ MayRun(MigTask(t))
    /\ migration_in_progress' = FALSE
    /\ mig' = [mig EXCEPT ![t].pc = "done", ![t].cleared = @ + 1]
    /\ running' = NoTask
    /\ UNCHANGED <<config, github_config, cache, scan_results, scan_in_progress,
                   scan_progress, migration_progress, websocket_connections, scan, response, cli, env, call, serving>>

run_migration(t) ==
    \/ MigBegin(t)
    \/ MigLoop(t)
    \/ MigBroadcast(t)
    \/ MigResolve(t)
    \/ MigExec(t)
    \/ MigTool(t)
    \/ MigResult(t)
    \/ MigExcept(t)
    \/ MigFinally(t)

\* ----------------------------------------- cli.py and scanner.py: CLI scan

\* json.dump(results, f, indent=2, default=str): every value of a result is
\* a str, an int, a bool, a list or a dict with str keys, so the text
\* written denotes the result itself; the file is kept as that value tagged
\* with its format.
JsonFile(value) == [format |-> "json", value |-> value]

\* OrganizationScanner.scan, lines 43-81, for the project list `projects` and
\* the fault of each project's collection: the result, or the failure that
\* the first un-isolated call raises.
RECURSIVE CliCollect(_, _, _, _)
CliCollect(projects, faults, n, acc) ==
    IF n > Len(projects) THEN [raised |-> FALSE, value |-> acc, collected |-> n - 1]
    ELSE LET r == scan_project_cli(projects[n].name, faults[n])
         IN IF r.raised THEN [raised |-> TRUE, error |-> r.error, collected |-> n]
            ELSE CliCollect(projects, faults, n + 1, Append(acc, r.value))

\* The `scan` command of the CLI, cli.py 102-117: without a configuration
\* file it exits with code 1; otherwise it reads the configuration (an
\* exception of get_config ends the command).  The command is a process of
\* its own: it shares the configuration file and the cache file with the
\* backend and nothing else.
cli_scan(project_filter) ==
    /\ cli.pc = "idle"
    /\ cli.runs < env.clis
    /\ LET cfg == get_config
       IN cli' = IF ~config_exists \/ cfg.raised
                 THEN [NoCli EXCEPT !.runs = cli.runs + 1, !.exit_code = 1]
                 ELSE [cli EXCEPT !.pc = "scanning", !.filter = project_filter,
                                  !.org = cfg.value.organization_url]
    /\ UNCHANGED <<config, github_config, cache, appVars, websocket_connections,
                   running, scan, mig, response, env, call, serving>>

\* cli.py 119-141 and scanner.py 42-81: the client is made from the
\* configuration read, OrganizationScanner.scan lists the projects (or takes
\* the one of a non-empty filter), collects them, calculates the summary and
\* writes the cache; any exception ends the command with exit code 1.  The
\* requests block the command's own process only: other processes act
\* between the reading of the configuration and this step.
cli_scan_run ==
    /\ cli.pc = "scanning"
    /\ \E listing_fails \in env.listing :
         LET listed == IF cli.filter \notin {NoText, ""}
                       THEN [raised |-> FALSE, value |-> <<[name |-> cli.filter]>>]
                       ELSE get_projects(listing_fails)
         IN IF listed.raised
            THEN /\ cli' = [NoCli EXCEPT !.runs = cli.runs + 1, !.exit_code = 1]
                 /\ UNCHANGED cache
            ELSE \E faults \in [DOMAIN listed.value -> env.cli_faults] :
                   LET got == CliCollect(listed.value, faults, 1, <<>>)
                       results == ScanResult(cli.org, got.value)
                   IN IF got.raised
                      THEN /\ cli' = [NoCli EXCEPT !.runs = cli.runs + 1,
                                                   !.exit_code = 1,
                                                   !.collected = got.collected]
                           /\ UNCHANGED cache
                      ELSE /\ cli' = [NoCli EXCEPT !.runs = cli.runs + 1,
                                                   !.results = results,
                                                   !.collected = got.collected]
                           /\ cache' = JsonFile(results)
    /\ UNCHANGED <<config, github_config, appVars, websocket_connections,
                   running, scan, mig, response, env, call, serving>>

\* The `configure` command of the CLI (save_config) and the removal of the
\* configuration file (delete_config), as the CLI's process sees them.
cli_configure ==
    /\ config = None
    /\ config' = save_config(StoredConfig)
    /\ UNCHANGED <<github_config, cache, appVars, websocket_connections,
                   running, scan, mig, response, cli, env, call, serving>>

\* ------------------------------------------------------- specifications

\* The backend with scans only: two scan tasks, a subscriber, the
\* configuration saved and deleted; of the collector's calls the project
\* listing and the repository listing may fail.
ScanEnv ==
    [scans |-> MaxScans, migrations |-> 0, clis |-> 0,
     filters |-> {NoText}, listing |-> BOOLEAN, faults |-> {NoFault, "repositories"},
     cli_faults |-> {}, send_raises |-> BOOLEAN, github |-> {FALSE}, batches |-> {},
     tool |-> {}, history |-> FALSE]

Init ==
    /\ InitApp
    /\ config = None
    /\ env = ScanEnv
    /\ serving = TRUE
    /\ call = NoCall

Requests ==
    \/ save_configuration
    \/ delete_configuration
    \/ \E s \in Subscribers : websocket_connect(s)
    \/ \E s \in Subscribers : websocket_disconnect(s)
    \/ lifespan

Next ==
    \/ Requests
    \/ \E f \in env.filters : start_scan(f)
    \/ \E t \in ScanIds : run_scan(t)

Spec == Init /\ [][Next]_vars

\* The stored result of a scan of the whole organization in which no
\* request failed.
CompleteScan ==
    ScanResult(OrgUrl,
               [k \in DOMAIN ProjectNames |->
                   scan_project_async(ProjectNames[k], NoFault).value])

\* The backend with migrations: two migration tasks, a subscriber, the
\* configuration (with or without a GitHub token) saved and deleted.  It
\* starts before any scan has completed or after a complete one.
MigrationEnv ==
    [scans |-> 0, migrations |-> MaxMigrations, clis |-> 0,
     filters |-> {}, listing |-> {}, faults |-> {},
     cli_faults |-> {}, send_raises |-> {FALSE}, github |-> BOOLEAN,
     batches |-> {<<"r1", "nx">>},
     tool |-> {"exit0", "exit1", "exception"}, history |-> FALSE]

InitMigration ==
    /\ github_config = None
    /\ cache = None
    /\ scan_results \in {None, CompleteScan}
    /\ scan_in_progress = FALSE
    /\ scan_progress = IF scan_results = None THEN EmptyDict
                       ELSE [status |-> "completed", progress |-> 100]
    /\ migration_in_progress = FALSE
    /\ migration_progress = EmptyDict
    /\ websocket_connections = <<>>
    /\ running = NoTask
    /\ scan = [t \in ScanIds |-> NoScanTask]
    /\ mig = [t \in MigIds |-> NoMigTask]
    /\ response = None
    /\ cli = NoCli
    /\ call = NoCall
    /\ config = None
    /\ env = MigrationEnv
    /\ serving = TRUE

NextMigration ==
    \/ Requests
    \/ \E repos \in env.batches : start_migration(repos)
    \/ \E t \in MigIds : run_migration(t)

SpecMigration == InitMigration /\ [][NextMigration]_vars

\* Under FairSpec every task of the event loop that can take a step gets to
\* take it: asyncio runs every ready callback, a send to a websocket and a
\* request to the platform return or raise (the HTTP client's timeout is
\* 30 s).  Requests are under no fairness: the environment may stop.
FairSpec == Spec /\ \A t \in ScanIds : WF_vars(run_scan(t))

\* ----------------------------------------------------------------- claims

\* A scan task is active from its creation by start_scan until it has left
\* its finally block.
ScanActive(t) == scan[t].pc \notin {"none", "done"}

\* The run ended with the terminal status completed (failed).
ScanCompleted(t) == scan[t].pc = "done" /\ scan[t].error = NoText
ScanFailed(t) == scan[t].pc = "done" /\ scan[t].error # NoText

\* What start_scan answers in the current state.
StartScanAnswer ==
    IF scan_in_progress THEN 409 ELSE IF ~config_exists THEN 400 ELSE 200

\* C1: at most one run_scan task is active at a time.
C1_AtMostOneScanActive ==
    Cardinality({t \in ScanIds : ScanActive(t)}) <= 1

\* C3: a start-scan request made while scan_in_progress is true is answered
\* 409 Conflict and leaves scan_in_progress, scan_progress and scan_results
\* as they were; no task is created and no event is published.
C3_ConflictLeavesScanUntouched ==
    [][\A f \in env.filters :
          (scan_in_progress /\ start_scan(f)) =>
              /\ response' = [op |-> "start_scan", status |-> 409]
              /\ UNCHANGED <<scan_in_progress, scan_progress, scan_results, scan>>]_vars

\* C3's case: a start-scan request was answered Conflict while the scan it
\* collided with is still running.
C3_Witness ==
    /\ response = [op |-> "start_scan", status |-> 409]
    /\ scan_in_progress
    /\ \E t \in ScanIds : scan[t].pc = "bcast"

\* C4 (its second half): a scan whose background task has been created
\* never ends in a failure caused by missing configuration.
C4_NoConfigFailureInTask ==
    \A t \in ScanIds : scan[t].pc # "none" => scan[t].error # ConfigNotFound

\* C8: whenever a scan run ends failed, scan_progress showing the status
\* failed as it leaves, the stored scan_results is the value it had when the
\* run started, and the run published a failed event carrying the error
\* text.
C8_FailedRunKeepsResult ==
    \A t \in ScanIds :
        (ScanFailed(t) /\ scan[t].ended = "failed") =>
            /\ scan[t].final = scan[t].seen
            /\ \E k \in DOMAIN scan[t].published :
                   scan[t].published[k] =
                       [type |-> "scan", status |-> "failed", error |-> scan[t].error]

\* The run of task t has stored its result: it is past the step that assigns
\* state.scan_results.
ScanStored(t) ==
    \/ scan[t].pc = "close"
    \/ scan[t].pc = "finally" /\ scan[t].error = NoText
    \/ scan[t].pc = "bcast" /\ scan[t].ret = "close"
    \/ ScanCompleted(t)

CompletedEvent == [type |-> "scan", status |-> "completed", progress |-> 100]

\* C9: the stored scan_results is absent or the complete result of one scan
\* run (a record for every project of its list, in order) whose summary is
\* calculate_summary of its own projects; it changes only in the one step of
\* a run that also sets the terminal snapshot, and the run publishes the
\* completed event in that step's call, not before.
C9_StoredResultComplete ==
    /\ [](scan_results # None =>
            /\ scan_results.summary = calculate_summary(scan_results.projects)
            /\ scan_results.summary # EmptyDict
            /\ \E t \in ScanIds :
                 /\ ScanStored(t)
                 /\ scan_results.projects = scan[t].results
                 /\ Len(scan[t].results) = Len(scan[t].projects)
                 /\ \A k \in DOMAIN scan[t].projects :
                        scan[t].results[k].name = scan[t].projects[k].name)
    /\ [][scan_results' # scan_results =>
            \E t \in ScanIds :
                /\ ScanSummary(t)
                /\ scan_progress' = [status |-> "completed", progress |-> 100]
                /\ CompletedEvent \notin Range(scan[t].published)
                /\ scan'[t].published = Append(scan[t].published, CompletedEvent)]_vars

\* C9's case: a run over both projects has stored its result and is sending
\* the terminal event, a second complete result having replaced the first.
C9_Witness ==
    /\ scan_results # None
    /\ Len(scan_results.projects) = Len(ProjectNames)
    /\ \E t, u \in ScanIds :
         /\ t # u
         /\ ScanCompleted(u)
         /\ scan[t].pc = "bcast" /\ scan[t].ret = "close" /\ scan[t].bidx = 1

\* C10: after every scan that ends with status completed, the cache slot
\* last_scan.json holds the result that scan stored.
C10_CacheHoldsStoredResult ==
    \A t \in ScanIds :
        ScanCompleted(t) =>
            cache = JsonFile(ScanResult(scan[t].org, scan[t].results))

\* ------------------------------------------------------- claims C2, C5, C6

FairSpecMigration == SpecMigration /\ \A t \in MigIds : WF_vars(run_migration(t))

\* A migration task is active from its creation by start_migration until it
\* has left its finally block.
MigActive(t) == mig[t].pc \notin {"none", "done"}

\* C2: at most one run_migration task is active at a time: a
\* start-migration request made while one is active creates no task.
C2_AtMostOneMigrationActive ==
    Cardinality({t \in MigIds : MigActive(t)}) <= 1

\* The step in which task t leaves the finally block of run_scan.
ScanLeaves(t) == scan[t].pc # "done" /\ scan'[t].pc = "done"

\* C5 as amended: every run_scan task that is created eventually leaves its
\* finally block; by then it has set scan_in_progress to false exactly once,
\* in the step that leaves, whatever path it took; and a start-scan request
\* made right after that step is not refused as a conflict: it is accepted
\* (200) when a configuration is stored and answered 400, not configured,
\* when none is, as after the run that ended on the failure of get_config.
C5_ScanFlagCleared ==
    /\ \A t \in ScanIds : (scan[t].pc # "none") ~> (scan[t].pc = "done")
    /\ [](\A t \in ScanIds :
             scan[t].cleared = IF scan[t].pc = "done" THEN 1 ELSE 0)
    /\ [][\A t \in ScanIds :
             ScanLeaves(t) =>
                 /\ scan_in_progress' = FALSE
                 /\ StartScanAnswer' = IF config_exists' THEN 200 ELSE 400]_vars

\* C5 as stated: every run_scan task that is created eventually leaves its
\* finally block, having set scan_in_progress to false exactly once on
\* every exit path, and a start-scan request made right after that step is
\* accepted (200).
C5_NextScanAccepted ==
    /\ \A t \in ScanIds : (scan[t].pc # "none") ~> (scan[t].pc = "done")
    /\ [](\A t \in ScanIds :
             scan[t].cleared = IF scan[t].pc = "done" THEN 1 ELSE 0)
    /\ [][\A t \in ScanIds :
             ScanLeaves(t) =>
                 /\ scan_in_progress' = FALSE
                 /\ StartScanAnswer' = 200]_vars

\* C5's case: one run has ended on the get_config failure, another on a
\* failure inside a project scan while a send to a subscriber raised, and
\* both have cleared the flag.
C5_Witness ==
    \E t, u \in ScanIds :
        /\ ScanFailed(t) /\ scan[t].error = ConfigNotFound
        /\ ScanFailed(u) /\ scan[u].error = HttpError("git/repositories")
        /\ scan[u].send_raised
        /\ ~scan_in_progress

\* The step in which task t leaves the finally block of run_migration.
MigLeaves(t) == mig[t].pc # "done" /\ mig'[t].pc = "done"

\* C6: every run_migration task that is created eventually leaves its
\* finally block; in that step it sets migration_in_progress to false,
\* whatever path it took, and a start-migration request made right after it
\* is not answered Conflict.
C6_MigrationFlagCleared ==
    /\ \A t \in MigIds : (mig[t].pc # "none") ~> (mig[t].pc = "done")
    /\ [](\A t \in MigIds :
             mig[t].cleared = IF mig[t].pc = "done" THEN 1 ELSE 0)
    /\ [][\A t \in MigIds : MigLeaves(t) => migration_in_progress' = FALSE]_vars

\* C6's case: one run has ended on the missing scan result and another on
\* the configuration load failure, and the flag is clear.
C6_Witness ==
    \E t, u \in MigIds :
        /\ mig[t].pc = "done" /\ mig[t].error = NoneTypeError
        /\ mig[u].pc = "done" /\ mig[u].error = ConfigNotFound
        /\ ~migration_in_progress

\* ---------------------------------------------------------------- claim C7

\* The backend with one scan of the whole organization or of project P2, in
\* which any one request of a project scan may fail.
CollectEnv ==
    [scans |-> MaxCollectScans, migrations |-> 0, clis |-> 0,
     filters |-> {NoText, "P2"}, listing |-> {FALSE},
     faults |-> BackendCalls \cup {NoFault},
     cli_faults |-> {}, send_raises |-> {FALSE}, github |-> {FALSE}, batches |-> {},
     tool |-> {}, history |-> FALSE]

InitCollect ==
    /\ InitApp
    /\ config = None
    /\ env = CollectEnv
    /\ serving = TRUE
    /\ call = NoCall

SpecCollect == InitCollect /\ [][Next]_vars

\* The record of a project holds the empty (zero) value of the category
\* whose request failed.
CategoryEmpty(rec, fault) ==
    CASE fault = "repositories" ->
             rec.repositories.count = 0 /\ rec.repositories.items = <<>>
      [] fault = "tfvc" -> ~rec.repositories.tfvc_used
      [] fault = "pipelines" -> rec.pipelines.yaml_count = 0
      [] fault = "build_definitions" ->
             rec.pipelines.build_definitions = 0 /\ rec.pipelines.classic_count = 0
      [] fault = "release_definitions" -> rec.pipelines.release_definitions = 0
      [] fault = "work_item_types" -> rec.work_items.custom_types = <<>>
      [] fault \in {"work_item_counts", "work_item_counts_listing",
                    "work_item_counts_status"} ->
             /\ rec.work_items.total = 0
             /\ \A ty \in DOMAIN rec.work_items.by_type : rec.work_items.by_type[ty] = 0
      [] fault = "teams" -> rec.teams.count = 0
      [] fault = "service_connections" -> rec.dependencies.service_connections = 0
      [] fault = "variable_groups" -> rec.dependencies.variable_groups = 0
      [] fault = "test_plans" -> rec.test_plans.count = 0
      [] OTHER -> TRUE

\* C7: when one request of a project scan has failed, whatever its
\* category, the project's record is in the result set with the empty value
\* for that category, and the scan does not end failed: once it has left its
\* finally block it is completed with a record for every project.
C7_CategoryFailureIsolated ==
    \A t \in ScanIds :
        \A k \in DOMAIN scan[t].faults :
            scan[t].faults[k] # NoFault =>
                /\ scan[t].error = NoText
                /\ k <= Len(scan[t].results)
                /\ scan[t].results[k].name = scan[t].projects[k].name
                /\ CategoryEmpty(scan[t].results[k], scan[t].faults[k])
                /\ scan[t].pc = "done" =>
                       /\ scan_progress.status = "completed"
                       /\ Len(scan_results.projects) = Len(scan[t].projects)

\* What holds of C7: the ten categories whose request is caught in the
\* collector (all but the repository listing) are isolated.
CaughtCategoriesIsolated ==
    \A t \in ScanIds :
        \A k \in DOMAIN scan[t].faults :
            scan[t].faults[k] \notin {NoFault, "repositories"}
              /\ scan[t].error = NoText =>
                /\ k <= Len(scan[t].results)
                /\ scan[t].results[k].name = scan[t].projects[k].name
                /\ CategoryEmpty(scan[t].results[k], scan[t].faults[k])

\* ------------------------------------------- the CLI halves of C4 and C10

\* The CLI alone: the scan command run three times, over the organization or over
\* project P2, the configuration file written and removed between the runs;
\* the project listing, the repository listing and the custom-field listing
\* may fail.
CliEnv ==
    [scans |-> 0, migrations |-> 0, clis |-> MaxCliRuns,
     filters |-> {NoText, "", "P2"}, listing |-> BOOLEAN, faults |-> {},
     cli_faults |-> {NoFault, "repositories", "custom_fields"},
     send_raises |-> {FALSE}, github |-> {FALSE}, batches |-> {}, tool |-> {},
     history |-> FALSE]

InitCli ==
    /\ InitApp
    /\ config = None
    /\ env = CliEnv
    /\ serving = TRUE
    /\ call = NoCall

NextCli ==
    \/ cli_configure
    \/ delete_configuration
    \/ \E f \in env.filters : cli_scan(f)
    \/ cli_scan_run

SpecCli == InitCli /\ [][NextCli]_vars

\* The CLI half of C4: the scan command run without a stored configuration
\* exits with code 1, has collected nothing and leaves the cache as it was.
CliScanNeedsConfig ==
    [][\A f \in env.filters :
          (~config_exists /\ cli_scan(f)) =>
              /\ cli'.exit_code = 1
              /\ cli'.collected = 0
              /\ UNCHANGED cache]_vars

\* The CLI half of C10: after a scan command that exits with code 0 the
\* cache holds the result it returned.
CliCacheHoldsResult ==
    (cli.runs > 0 /\ cli.exit_code = 0) => cache = JsonFile(cli.results)

\* ------------------------------------------- the scanner's pure functions

\* A project record as _result_to_dict and scan_project_async build it, with
\* the fields calculate_summary reads given and the others empty.
ProjectRecord(count, tfvc, yaml, release, total, fields, types) ==
    [name |-> "P",
     repositories |-> [count |-> count, tfvc_used |-> tfvc, items |-> <<>>],
     pipelines |-> [yaml_count |-> yaml, build_definitions |-> 0,
                    release_definitions |-> release, classic_count |-> 0],
     work_items |-> [total |-> total, by_type |-> EmptyDict,
                     custom_types |-> types, custom_fields |-> fields],
     teams |-> [count |-> 0],
     dependencies |-> [service_connections |-> 0, variable_groups |-> 0],
     test_plans |-> [count |-> 0]]

\* The records the lists are made of: one group of counts varies at a time,
\* over values on both sides of every threshold of the scores (so that the
\* sums over two records cross them too).
RepoProfiles ==
    {ProjectRecord(count, tfvc, 0, 0, 0, 0, <<>>) :
        count \in {0, 20, 21, 50, 51}, tfvc \in BOOLEAN}

PipelineProfiles ==
    {ProjectRecord(0, FALSE, yaml, release, 0, 0, <<>>) :
        yaml \in {0, 21, 50, 51, 101}, release \in {0, 1, 29, 58}}

WorkItemProfiles ==
    {ProjectRecord(0, FALSE, 0, 0, total, fields, types) :
        total \in {0, 1000, 1001, 5001, 10001}, fields \in {0, 10, 11, 21},
        types \in {<<>>, <<"Risk">>}}

\* Records with every group set, one of them with a second custom type.
MixedProfiles ==
    {ProjectRecord(51, TRUE, 51, 58, 10001, 21, types) :
        types \in {<<"Risk">>, <<"Risk", "Change Request">>}}

Profiles == RepoProfiles \cup PipelineProfiles \cup WorkItemProfiles \cup MixedProfiles

ProjectLists == UNION {[1..n -> Profiles] : n \in 0..MaxProjects}

ScoreRange == (0 - ScoreMargin)..(100 + ScoreMargin)

\* Nothing of the environment takes part.
PureEnv ==
    [scans |-> 0, migrations |-> 0, clis |-> 0, filters |-> {}, listing |-> {},
     faults |-> {}, cli_faults |-> {}, send_raises |-> {}, github |-> {},
     batches |-> {}, tool |-> {}, history |-> FALSE]

\* _calculate_summary is to be applied to a list of project records, or
\* _score_to_rating to each of two scores.
InitScoring ==
    /\ InitApp
    /\ config = None
    /\ env = PureEnv
    /\ serving = TRUE
    /\ \/ \E projects \in ProjectLists :
            call = [op |-> "calculate_summary", arg |-> projects,
                    done |-> FALSE, result |-> None]
       \/ \E a, b \in ScoreRange :
            call = [op |-> "score_to_rating", arg |-> <<a, b>>,
                    done |-> FALSE, result |-> None]

apply_calculate_summary ==
    /\ call.op = "calculate_summary" /\ ~call.done
    /\ call' = [call EXCEPT !.done = TRUE, !.result = calculate_summary(call.arg)]
    /\ UNCHANGED <<config, github_config, cache, appVars, websocket_connections,
                   running, scan, mig, response, cli, env, serving>>

apply_score_to_rating ==
    /\ call.op = "score_to_rating" /\ ~call.done
    /\ call' = [call EXCEPT !.done = TRUE,
                            !.result = <<score_to_rating(call.arg[1]),
                                         score_to_rating(call.arg[2])>>]
    /\ UNCHANGED <<config, github_config, cache, appVars, websocket_connections,
                   running, scan, mig, response, cli, env, serving>>

NextScoring ==
    \/ apply_calculate_summary
    \/ apply_score_to_rating

SpecScoring == InitScoring /\ [][NextScoring]_vars

\* calculate_summary has been applied and call.result is what it returned.
Summarized == call.op = "calculate_summary" /\ call.done

ScoreCategories == {"repositories", "pipelines", "work_items"}

\* C11: the three category scores and the overall score of a summary are
\* integers from 0 to 100, and the rating reported with a category score is
\* the rating of that reported score.
C11_ScoresWithinRange ==
    Summarized =>
        LET complexity == call.result.complexity
        IN /\ \A cat \in ScoreCategories :
                /\ complexity[cat].score \in 0..100
                /\ complexity[cat].rating = score_to_rating(complexity[cat].score)
           /\ complexity.overall \in 0..100

\* C11's case: a summary whose pipeline score has reached the clamp, all
\* pipelines being classic and more than 100 of them.
C11_Witness ==
    /\ Summarized
    /\ call.result.complexity.pipelines.score = 100
    /\ call.result.complexity.pipelines.rating = "High"
    /\ call.result.total_pipelines > 100

\* score_to_rating has been applied to both scores of the pair.
Rated == call.op = "score_to_rating" /\ call.done

\* The ratings in their order.
RatingRank(rating) ==
    CASE rating = "Low" -> 0 [] rating = "Medium" -> 1 [] rating = "High" -> 2

\* C12: a score below 35 is rated Low, one from 35 to 64 Medium, one of 65
\* or more High; 34, 35, 64 and 65 are rated Low, Medium, Medium and High;
\* and of two scores the larger never has the lower rating.
C12_RatingThresholds ==
    Rated =>
        /\ \A k \in 1..2 :
              LET score == call.arg[k]
                  rating == call.result[k]
              IN /\ rating \in {"Low", "Medium", "High"}
                 /\ rating = "Low" <=> score < 35
                 /\ rating = "Medium" <=> (score >= 35 /\ score <= 64)
                 /\ rating = "High" <=> score >= 65
                 /\ score = 34 => rating = "Low"
                 /\ score = 35 => rating = "Medium"
                 /\ score = 64 => rating = "Medium"
                 /\ score = 65 => rating = "High"
        /\ call.arg[1] <= call.arg[2]
              => RatingRank(call.result[1]) <= RatingRank(call.result[2])

\* C12's case: the two scores on either side of the lower threshold have
\* been rated, and so have the two on either side of the upper one.
C12_Witness ==
    /\ Rated
    /\ call.arg \in {<<34, 35>>, <<64, 65>>}
    /\ RatingRank(call.result[1]) < RatingRank(call.result[2])

\* C13: the overall score of a summary is the sum of the three reported
\* category scores divided by three and rounded down, and the overall
\* rating is the rating of that overall score.
C13_OverallIsFloorOfMean ==
    Summarized =>
        LET complexity == call.result.complexity
            total == complexity.repositories.score + complexity.pipelines.score
                     + complexity.work_items.score
        IN /\ complexity.overall = total \div 3
           /\ 3 * complexity.overall <= total
           /\ total < 3 * complexity.overall + 3
           /\ complexity.rating = score_to_rating(complexity.overall)

\* C13's case: a summary whose three scores do not add up to a multiple of
\* three, so that the division rounds.
C13_Witness ==
    /\ Summarized
    /\ (call.result.complexity.repositories.score
        + call.result.complexity.pipelines.score
        + call.result.complexity.work_items.score) % 3 = 2
    /\ call.result.complexity.overall >= 35

\* C14: the blockers of a summary are empty exactly when no project record
\* has tfvc_used, the release definitions add up to zero and no project
\* record names a custom work item type; and the blockers there are stand in
\* the order TFVC, classic pipelines, custom types.
C14_BlockersIffCauses ==
    Summarized =>
        LET projects == call.arg
            blockers == call.result.blockers
            order == <<"project(s) use TFVC - requires special handling",
                       "Classic release pipeline(s) need manual conversion",
                       "custom work item type(s) need mapping">>
            place(text) == CHOOSE k \in 1..3 : order[k] = text
            tfvc == \E k \in DOMAIN projects : projects[k].repositories.tfvc_used
            classic ==
                SumSeq([k \in DOMAIN projects |->
                           projects[k].pipelines.release_definitions]) > 0
            custom ==
                UNION {Range(projects[k].work_items.custom_types) :
                          k \in DOMAIN projects} # {}
        IN /\ blockers = <<>> <=> (~tfvc /\ ~classic /\ ~custom)
           /\ \A k \in DOMAIN blockers : blockers[k].text \in Range(order)
           /\ \A j, k \in DOMAIN blockers :
                j < k => place(blockers[j].text) < place(blockers[k].text)

\* C14's case: a summary with all three blockers, the custom types of two
\* project records counted once each.
C14_Witness ==
    /\ Summarized
    /\ Len(call.result.blockers) = 3
    /\ call.result.blockers[3].n = 2
    /\ Len(call.arg) = 2

\* ------------------------------------------------- one migration batch

\* The backend after a complete scan, with a GitHub token in the saved
\* configuration: a batch whose second name no project has, and a batch
\* that names a repo twice; the tool succeeds or fails on each repo.
BatchEnv ==
    [scans |-> 0, migrations |-> MaxBatchRuns, clis |-> 0,
     filters |-> {}, listing |-> {}, faults |-> {},
     cli_faults |-> {}, send_raises |-> {FALSE}, github |-> {TRUE},
     batches |-> {<<"r1", "nx", "r2">>, <<"r1", "r1">>},
     tool |-> {"exit0", "exit1", "exit1_stdout"}, history |-> FALSE]

\* The state after a scan of the whole organization has completed and its
\* task has ended.
InitBatch ==
    /\ github_config = None
    /\ cache = None
    /\ scan_results = CompleteScan
    /\ scan_in_progress = FALSE
    /\ scan_progress = [status |-> "completed", progress |-> 100]
    /\ migration_in_progress = FALSE
    /\ migration_progress = EmptyDict
    /\ websocket_connections = <<>>
    /\ running = NoTask
    /\ scan = [t \in ScanIds |-> NoScanTask]
    /\ mig = [t \in MigIds |-> NoMigTask]
    /\ response = None
    /\ cli = NoCli
    /\ call = NoCall
    /\ config = None
    /\ env = BatchEnv
    /\ serving = TRUE

SpecBatch == InitBatch /\ [][NextMigration]_vars

\* The repo the task is at, and whether the stored scan result has it.
MigRepoName(t) == mig[t].repos[mig[t].k + 1]
RepoKnown(repo_name) == FindRepo(scan_results.projects, 1, repo_name, None) # None

\* The task has left the try block of run_migration.
MigEnded(t) == mig[t].pc \in {"finally", "done"}

\* C15, the steps: with a scan result stored, the lookup of a name no
\* project has marks the item failed with the not-found message and goes on
\* to the next repo of the list without an error; a result of the tool,
\* success or failure, is followed by the next repo too; at the head of the
\* loop the next repo of the list becomes in_progress, and after the last
\* one the batch status is set to completed.
C15_Steps ==
    \A t \in MigIds :
        /\ (mig[t].pc = "resolve" /\ mig'[t] # mig[t] /\ scan_results # None
               /\ ~RepoKnown(MigRepoName(t)))
             => /\ migration_progress'.repos[MigRepoName(t)] = ItemNotFound
                /\ migration_progress'.status = migration_progress.status
                /\ mig'[t].pc = "loop"
                /\ mig'[t].k = mig[t].k + 1
                /\ mig'[t].error = NoText
        /\ (mig[t].pc = "result" /\ mig'[t] # mig[t])
             => /\ migration_progress'.repos[MigRepoName(t)].status
                     = IF mig[t].outcome.success THEN "completed" ELSE "failed"
                /\ migration_progress'.status = migration_progress.status
                /\ mig'[t].pc = "bcast" /\ mig'[t].ret = "loop"
                /\ mig'[t].k = mig[t].k + 1
                /\ mig'[t].error = NoText
        /\ (mig[t].pc = "loop" /\ mig'[t] # mig[t])
             => IF mig[t].k < Len(mig[t].repos)
                THEN /\ migration_progress'.repos[MigRepoName(t)] = ItemInProgress
                     /\ mig'[t].k = mig[t].k /\ mig'[t].ret = "resolve"
                ELSE /\ migration_progress'.status = "completed"
                     /\ mig'[t].ret = "finally"

\* C15, the outcome: a task that has left the try block without an
\* exception has gone through its whole list and the last event it
\* published has the batch status completed; an exception, which alone makes
\* the batch status failed, is never an item's outcome: it is the
\* configuration found missing.
C15_Outcome ==
    \A t \in MigIds :
        /\ (MigEnded(t) /\ mig[t].error = NoText)
             => /\ mig[t].k = Len(mig[t].repos)
                /\ mig[t].published[Len(mig[t].published)].status = "completed"
        /\ mig[t].error \in {NoText, ConfigNotFound}

\* C15: in a batch run with a scan result stored, a repo name no project
\* has gets status failed with the not-found message, the repos after it are
\* still processed in the order of the list, and the batch status ends as
\* completed whatever the outcomes of the items.
C15_NotFoundDoesNotStopBatch == []C15_Outcome /\ [][C15_Steps]_vars

\* C15's case: the batch of three has ended, its first repo failed in the
\* tool, its second was not found and its third was migrated.
C15_Witness ==
    \E t \in MigIds :
        /\ mig[t].pc = "done"
        /\ mig[t].repos = <<"r1", "nx", "r2">>
        /\ migration_progress.status = "completed"
        /\ migration_progress.repos["r1"].status = "failed"
        /\ migration_progress.repos["nx"] = ItemNotFound
        /\ migration_progress.repos["r2"] = ItemCompleted

\* The moves of an item's status that the state machine of an item has.
ItemMoves ==
    {<<"pending", "in_progress">>, <<"in_progress", "completed">>,
     <<"in_progress", "failed">>}

\* C16: within a batch the status of each repo only moves from pending to
\* in_progress and from in_progress to completed or failed, whatever list of
\* names was requested: no step other than the first of a task, which lays
\* out the items of its batch, moves a status any other way.
C16_ItemStatusOnlyAdvances ==
    [][ (/\ "repos" \in DOMAIN migration_progress
         /\ \A t \in MigIds : ~(mig[t].pc = "created" /\ mig'[t].pc # "created"))
        => \A r \in DOMAIN migration_progress.repos :
              \/ migration_progress'.repos[r].status = migration_progress.repos[r].status
              \/ <<migration_progress.repos[r].status,
                    migration_progress'.repos[r].status>> \in ItemMoves ]_vars

\* ------------------------------------------------- the publishes of a scan

\* The backend with one scan of project P2 and two subscribers that come
\* and go; a send to a subscriber may raise; the history of each publish is
\* kept.
PublishEnv ==
    [scans |-> MaxPublishScans, migrations |-> 0, clis |-> 0,
     filters |-> {"P2"}, listing |-> {FALSE}, faults |-> {NoFault},
     cli_faults |-> {}, send_raises |-> BOOLEAN, github |-> {FALSE}, batches |-> {},
     tool |-> {}, history |-> TRUE]

\* The backend after a complete scan, with one batch of one repo and two
\* subscribers that come and go; a send to a subscriber may raise; the
\* history of each publish is kept.
PublishMigrationEnv ==
    [scans |-> 0, migrations |-> MaxBatchRuns, clis |-> 0,
     filters |-> {}, listing |-> {}, faults |-> {},
     cli_faults |-> {}, send_raises |-> BOOLEAN, github |-> {TRUE},
     batches |-> {<<"r2">>}, tool |-> {"exit0"}, history |-> TRUE]

\* A behaviour follows the publishes of a scan, from the state after
\* construction, or those of a migration batch, from the state after a
\* complete scan.
InitPublish ==
    /\ env \in {PublishEnv, PublishMigrationEnv}
    /\ github_config = None
    /\ cache = None
    /\ scan_results = IF env.migrations > 0 THEN CompleteScan ELSE None
    /\ scan_in_progress = FALSE
    /\ scan_progress = IF env.migrations > 0
                       THEN [status |-> "completed", progress |-> 100]
                       ELSE EmptyDict
    /\ migration_in_progress = FALSE
    /\ migration_progress = EmptyDict
    /\ websocket_connections = <<>>
    /\ running = NoTask
    /\ scan = [t \in ScanIds |-> NoScanTask]
    /\ mig = [t \in MigIds |-> NoMigTask]
    /\ response = None
    /\ cli = NoCli
    /\ config = None
    /\ serving = TRUE
    /\ call = NoCall

NextPublish ==
    \/ save_configuration
    \/ delete_configuration
    \/ \E s \in 1..MaxPublishSubscribers : websocket_connect(s)
    \/ \E s \in 1..MaxPublishSubscribers : websocket_disconnect(s)
    \/ lifespan
    \/ \E f \in env.filters : start_scan(f)
    \/ \E t \in ScanIds : run_scan(t)
    \/ \E repos \in env.batches : start_migration(repos)
    \/ \E t \in MigIds : run_migration(t)

SpecPublish == InitPublish /\ [][NextPublish]_vars

\* The task has made a call of broadcast_progress and the call has returned.
Published(task) == task.published # <<>> /\ task.pc # "bcast"

\* How many sends of the task's last publish went to subscriber s.
SendsTo(task, s) == Cardinality({k \in DOMAIN task.sent : task.sent[k].to = s})

\* C17: after a publish every subscriber that was registered when it began
\* and has been registered ever since was sent the event exactly once,
\* whatever subscribers came or went while a send was awaited.
C17_StayedSubscribersSentOnce ==
    \A t \in ScanIds :
        Published(scan[t]) => \A s \in scan[t].stayed : SendsTo(scan[t], s) = 1

\* A send of broadcast_progress by the task, raising or not, leaves the task
\* (record `task`, `next` after the step) inside the call at the next index
\* with nothing else of its state changed; and the call returns to the point
\* the task called it from, without an error, whatever sends raised.
PublishStep(task, next) ==
    /\ (task.pc = "bcast" /\ next.bidx # task.bidx)
         => /\ next = [task EXCEPT !.bidx = @ + 1,
                                   !.send_raised = next.send_raised,
                                   !.sent = next.sent]
            /\ Len(next.sent) = Len(task.sent) + 1
            /\ next.sent[Len(next.sent)].to = websocket_connections[task.bidx + 1]
            /\ appVars' = appVars
            /\ websocket_connections' = websocket_connections
    /\ (task.pc = "bcast" /\ next.pc # "bcast")
         => next = [task EXCEPT !.pc = task.ret]

\* C18, the steps: a send by a scan task or by a migration task, raising or
\* not, changes nothing of the task's state but its place in the list and
\* nothing of the application's state, and the call returns to the task.
C18_Steps ==
    /\ \A t \in ScanIds : PublishStep(scan[t], scan'[t])
    /\ \A t \in MigIds : PublishStep(mig[t], mig'[t])

\* C18, the sends: inside the call every place of the list the loop has
\* passed was sent to, the places after a send that raised included.
C18_Sends ==
    /\ \A t \in ScanIds : scan[t].pc = "bcast" => Len(scan[t].sent) = scan[t].bidx
    /\ \A t \in MigIds : mig[t].pc = "bcast" => Len(mig[t].sent) = mig[t].bidx

\* C18: a send that fails during a publish does not raise to the scan or
\* migration task that publishes, which goes on with its state unchanged,
\* and does not keep the event from being sent to the subscribers after it
\* in the list.
C18_SendFailureSwallowed == []C18_Sends /\ [][C18_Steps]_vars

\* The case of a scan: the send to the first subscriber of the list raised,
\* the second subscriber was sent the event after it, and the scan went on
\* to complete.
ScanSendFailureSwallowed ==
    \E t \in ScanIds :
        /\ ScanCompleted(t)
        /\ Len(scan[t].sent) = 2
        /\ scan[t].sent[1].raised
        /\ ~scan[t].sent[2].raised

\* C18's case, in a migration: a send to the first subscriber of the list
\* raised in the publish of the item's result, the second subscriber was
\* sent the event after it, and the batch went on to publish its completed
\* status to both and to end without an error.
C18_Witness ==
    \E t \in MigIds :
        /\ mig[t].pc = "done"
        /\ mig[t].error = NoText
        /\ mig[t].send_raised
        /\ migration_progress.status = "completed"
        /\ migration_progress.repos["r2"] = ItemCompleted
        /\ Len(mig[t].sent) = 2
        /\ mig[t].sent[1].raised
        /\ ~mig[t].sent[2].raised

\* C19: no subscriber stays registered across two publishes of a task in
\* both of which the send to it failed: a subscriber whose send failed in
\* a publish has left the list when the publish is over.
C19_FailedSubscriberRemoved ==
    \A t \in ScanIds :
        Published(scan[t]) => FailedSends(scan[t]) \cap scan[t].failed_before = {}

\* C20: a task that waits for an external call does not hold the event
\* loop, so that request handlers and other tasks can take steps meanwhile:
\* a scan task at the collection of a project (line 240, the requests of
\* scan_project_async ahead of it) and a migration task whose tool is
\* running in the executor (line 489).
C20_ExternalCallsYield ==
    /\ \A t \in ScanIds : scan[t].pc = "collect" => running # ScanTask(t)
    /\ \A t \in MigIds : mig[t].pc = "tool" => running # MigTask(t)

\* ------------------------------------------------- config.py on its own

\* The configurations saved: texts that yaml would read as a str when
\* unquoted, and texts it would read as something else.
Configurations ==
    [organization_url : {OrgUrl, "123", ""},
     pat : {"ado-pat", "123", "true", "no", "null", "~", ""},
     default_project : {NoText, "", "P1"}]

InitConfig ==
    /\ InitApp
    /\ config = None
    /\ env = PureEnv
    /\ serving = TRUE
    /\ call = NoCall

\* save_config(settings), then config_exists().
apply_save_config ==
    /\ \E settings \in Configurations :
         /\ config' = save_config(settings)
         /\ call' = [op |-> "save_config", arg |-> settings, done |-> TRUE,
                     result |-> config_exists']
    /\ UNCHANGED <<github_config, cache, appVars, websocket_connections,
                   running, scan, mig, response, cli, env, serving>>

\* delete_config(), then config_exists().
apply_delete_config ==
    /\ config' = None
    /\ call' = [op |-> "delete_config", arg |-> None, done |-> TRUE,
                result |-> config_exists']
    /\ UNCHANGED <<github_config, cache, appVars, websocket_connections,
                   running, scan, mig, response, cli, env, serving>>

\* get_config() after a save_config or a delete_config; the call before is
\* kept as the argument.
apply_get_config ==
    /\ call.op \in {"save_config", "delete_config"}
    /\ call' = [op |-> "get_config", arg |-> call, done |-> TRUE, result |-> get_config]
    /\ UNCHANGED <<config, github_config, cache, appVars, websocket_connections,
                   running, scan, mig, response, cli, env, serving>>

NextConfig ==
    \/ apply_save_config
    \/ apply_delete_config
    \/ apply_get_config

SpecConfig == InitConfig /\ [][NextConfig]_vars

\* C21: after save_config the file exists and get_config returns the
\* organization_url and the pat that were saved; after delete_config the
\* file does not exist and get_config raises FileNotFoundError.
C21_ConfigRoundTrip ==
    /\ call.op = "save_config" => call.result = TRUE
    /\ call.op = "delete_config" => call.result = FALSE
    /\ (call.op = "get_config" /\ call.arg.op = "save_config")
         => /\ ~call.result.raised
            /\ call.result.value.organization_url = call.arg.arg.organization_url
            /\ call.result.value.pat = call.arg.arg.pat
    /\ (call.op = "get_config" /\ call.arg.op = "delete_config")
         => /\ call.result.raised
            /\ call.result.error = ConfigNotFound

\* C21's case: a configuration whose pat yaml would read as an integer
\* when unquoted has been saved over an earlier one and read back.
C21_Witness ==
    /\ call.op = "get_config"
    /\ call.arg.op = "save_config"
    /\ call.arg.arg.pat = "123"
    /\ call.result.value.pat = "123"
    /\ config.pat.style = "quoted"

\* C22: in a scan that completes, for every i from 1 to the number of
\* projects a scanning event was published, after the i-th project had been
\* collected, with projects_scanned = i, progress the floor of i * 100 over
\* the total, and the total.  An event with projects_scanned = i is
\* published after the i-th collection when there is one at all, the loop
\* publishing before it collects.
C22_EventAfterEachProject ==
    \A t \in ScanIds :
        ScanCompleted(t) =>
            \A i \in 1..Len(scan[t].projects) :
                \E k \in DOMAIN scan[t].published :
                    /\ scan[t].published[k].status = "scanning"
                    /\ scan[t].published[k].projects_scanned = i
                    /\ scan[t].published[k].progress = (i * 100) \div Len(scan[t].projects)
                    /\ scan[t].published[k].total_projects = Len(scan[t].projects)

\* The scan events of one run are published in the order the projects are
\* visited: every event but the last is a scanning event, the event after it
\* tells of no fewer projects scanned and of no less progress, and after the
\* completed or failed event of the run nothing follows.
ScanEventsOfRunInOrder ==
    \A t \in ScanIds :
        \A k \in DOMAIN scan[t].published :
            LET event == scan[t].published[k]
            IN /\ event.type = "scan"
               /\ event.status = "scanning"
                    => /\ event.projects_scanned \in 0..(Len(scan[t].projects) - 1)
                       /\ event.current_project
                            = scan[t].projects[event.projects_scanned + 1].name
               /\ k < Len(scan[t].published)
                    => LET next == scan[t].published[k + 1]
                       IN /\ event.status = "scanning"
                          /\ next.status \in {"scanning", "completed", "failed"}
                          /\ next.status = "scanning"
                               => /\ next.projects_scanned >= event.projects_scanned
                                  /\ next.progress >= event.progress
                          /\ next.status = "completed" => next.progress >= event.progress

\* The backend with two scans of the whole organization and a subscriber;
\* no request fails, and the history of each publish is kept.
StreamEnv ==
    [scans |-> MaxScans, migrations |-> 0, clis |-> 0,
     filters |-> {NoText}, listing |-> {FALSE}, faults |-> {NoFault},
     cli_faults |-> {}, send_raises |-> {FALSE}, github |-> {FALSE}, batches |-> {},
     tool |-> {}, history |-> TRUE]

InitStream ==
    /\ InitApp
    /\ config = None
    /\ env = StreamEnv
    /\ serving = TRUE
    /\ call = NoCall

SpecStream == InitStream /\ [][Next]_vars

\* C23: the scan events a subscriber that stays connected observes never go
\* down in projects_scanned or progress before a completed or failed event,
\* and each run's events are in visiting order.  In particular, when a task
\* sends a scanning event to a subscriber that has been registered since
\* another task sent it the scanning event that task published last (so
\* that no completed or failed event has come in between), the event sent
\* tells of no fewer projects scanned and of no less progress.
C23_SubscriberSeesNoDecrease ==
    /\ []ScanEventsOfRunInOrder
    /\ [][\A t, u \in ScanIds :
             ( /\ t # u
               /\ scan[t].pc = "bcast"
               /\ BroadcastMore(scan[t])
               /\ scan'[t].bidx = scan[t].bidx + 1
               /\ scan[t].published[Len(scan[t].published)].status = "scanning"
               /\ scan[u].published # <<>>
               /\ scan[u].published[Len(scan[u].published)].status = "scanning"
               /\ websocket_connections[scan[t].bidx + 1] \in scan[u].stayed
               /\ \E k \in DOMAIN scan[u].sent :
                     scan[u].sent[k]
                       = [to |-> websocket_connections[scan[t].bidx + 1],
                          raised |-> FALSE] )
             => LET sent == scan[t].published[Len(scan[t].published)]
                    seen == scan[u].published[Len(scan[u].published)]
                IN /\ sent.projects_scanned >= seen.projects_scanned
                   /\ sent.progress >= seen.progress]_vars

\* C24: the pipeline score of a summary is 30, plus the floor of 50 times
\* the classic pipelines over the total pipelines (over 1 when there are
\* none), plus 20 with more than 100 pipelines or else 10 with more than 50,
\* and at most 100; the total being the YAML pipelines and the release
\* definitions, the classic ones the release definitions.
C24_PipelineScoreFormula ==
    Summarized =>
        LET projects == call.arg
            classic == SumSeq([k \in DOMAIN projects |->
                                  projects[k].pipelines.release_definitions])
            total == SumSeq([k \in DOMAIN projects |->
                                projects[k].pipelines.yaml_count
                                + projects[k].pipelines.release_definitions])
            size == IF total > 100 THEN 20 ELSE IF total > 50 THEN 10 ELSE 0
        IN call.result.complexity.pipelines.score
             = Min(100, 30 + ((50 * classic) \div Max(total, 1)) + size)

\* C25: the work-item score of a stored result is 25, plus 30 when the
\* custom fields the collector reports for the scanned projects are more
\* than 20 in all or else 15 when they are more than 10, plus 25, 15 or 5
\* for more than 10000, 5000 or 1000 work items, and at most 100.
C25_StoredWorkItemScore ==
    scan_results # None =>
        LET projects == scan_results.projects
            fields == SumSeq([k \in DOMAIN projects |->
                                 Len(get_custom_fields(projects[k].name, NoFault))])
            total == scan_results.summary.total_work_items
        IN scan_results.summary.complexity.work_items.score
             = Min(100, 25 + (IF fields > 20 THEN 30 ELSE IF fields > 10 THEN 15 ELSE 0)
                           + (IF total > 10000 THEN 25 ELSE IF total > 5000 THEN 15
                              ELSE IF total > 1000 THEN 5 ELSE 0))

\* C26: every change of an item's status is published, with the whole map of
\* the items, before the next change of an item's status: when a step of a
\* task changes the map, the map as it stood was the one in the last event
\* the task published (or the task had changed no status yet).
C26_EveryItemChangePublished ==
    [][ \A t \in MigIds :
          (/\ mig[t].pc \in {"loop", "resolve", "result"}
           /\ mig'[t] # mig[t]
           /\ migration_progress'.repos # migration_progress.repos
           /\ mig[t].published # <<>>)
          => mig[t].published[Len(mig[t].published)].repos = migration_progress.repos
      ]_vars

\* C27: the repo a task runs the tool for was resolved to the first project
\* of the stored scan result, in its order, that has a repository of that
\* name, and that project is the source project the tool is given.
C27_ResolvedToFirstProject ==
    \A t \in MigIds :
        (mig[t].pc \in {"exec", "tool"} /\ scan_results # None) =>
            LET projects == scan_results.projects
                has(n) == FirstNamed(projects[n].repositories.items, MigRepoName(t)) # None
            IN \E n \in DOMAIN projects :
                  /\ has(n)
                  /\ \A m \in 1..(n - 1) : ~has(m)
                  /\ mig[t].info.project = projects[n].name

\* --------------------------------------- a scan while a batch is running

\* The backend after a complete scan, with a scan of project P2 alone and a
\* batch of two repos of project P1 started in any order.
MixedEnv ==
    [scans |-> MaxMixedRuns, migrations |-> MaxMixedRuns, clis |-> 0,
     filters |-> {"P2"}, listing |-> {FALSE}, faults |-> {NoFault},
     cli_faults |-> {}, send_raises |-> {FALSE}, github |-> {TRUE},
     batches |-> {<<"r1", "r2">>}, tool |-> {"exit0"}, history |-> FALSE]

InitMixed ==
    /\ github_config = None
    /\ cache = None
    /\ scan_results = CompleteScan
    /\ scan_in_progress = FALSE
    /\ scan_progress = [status |-> "completed", progress |-> 100]
    /\ migration_in_progress = FALSE
    /\ migration_progress = EmptyDict
    /\ websocket_connections = <<>>
    /\ running = NoTask
    /\ scan = [t \in ScanIds |-> NoScanTask]
    /\ mig = [t \in MigIds |-> NoMigTask]
    /\ response = None
    /\ cli = NoCli
    /\ call = NoCall
    /\ config = None
    /\ env = MixedEnv
    /\ serving = TRUE

NextMixed ==
    \/ Requests
    \/ \E f \in env.filters : start_scan(f)
    \/ \E t \in ScanIds : run_scan(t)
    \/ \E repos \in env.batches : start_migration(repos)
    \/ \E t \in MigIds : run_migration(t)

SpecMixed == InitMixed /\ [][NextMixed]_vars

\* C28: the lookup of one item runs without interleaving, against the scan
\* result stored at that moment and not the one stored when the batch began:
\* the step that leaves the lookup changes no stored result and takes the
\* item to the tool with the repo found in the result now stored, or marks
\* it not found when that result has no such repo.
C28_LookupAgainstCurrentResult ==
    [][ \A t \in MigIds :
          (mig[t].pc = "resolve" /\ mig'[t].pc # "resolve" /\ scan_results # None)
          => /\ scan_results' = scan_results
             /\ IF RepoKnown(MigRepoName(t))
                THEN /\ mig'[t].pc = "exec"
                     /\ mig'[t].info
                          = FindRepo(scan_results.projects, 1, MigRepoName(t), None)
                ELSE /\ mig'[t].pc = "loop"
                     /\ migration_progress'.repos[MigRepoName(t)] = ItemNotFound
      ]_vars

\* C28's case: a scan of P2 completed between the two items of a batch: r1
\* was migrated, and r2, which the result stored when the batch began had,
\* was reported not found.
C28_Witness ==
    \E t \in MigIds :
        /\ mig[t].pc = "done"
        /\ mig[t].repos = <<"r1", "r2">>
        /\ FindRepo(mig[t].seen.projects, 1, "r2", None) # None
        /\ migration_progress.repos["r1"] = ItemCompleted
        /\ migration_progress.repos["r2"] = ItemNotFound

\* C29: whenever a migration run has ended and none is running, every repo
\* of the request has status completed or failed, none is left pending or
\* in_progress; a run started before any scan has completed and a run whose
\* configuration load fails are included.
C29_EndedRunLeavesNoOpenItem ==
    ( /\ ~migration_in_progress
      /\ \E t \in MigIds : mig[t].pc = "done"
      /\ \A t \in MigIds : ~MigActive(t) )
    => \A name \in DOMAIN migration_progress.repos :
           migration_progress.repos[name].status \in {"completed", "failed"}

\* Lines 304-310: what get_scan_status answers in the current state.
get_scan_status ==
    [x \in {"in_progress"} \cup DOMAIN scan_progress |->
        IF x = "in_progress" THEN scan_in_progress ELSE scan_progress[x]]

\* C30: a scan-status snapshot taken between the acceptance of a start-scan
\* request and the terminal status of that scan reports in_progress true
\* and no terminal status, and a snapshot that shows the status completed
\* or failed reports in_progress false.  A snapshot is taken when no task
\* holds the event loop.
C30_SnapshotsFollowTheRun ==
    running = NoTask =>
        LET snapshot == get_scan_status
            terminal == /\ "status" \in DOMAIN snapshot
                        /\ snapshot.status \in {"completed", "failed"}
        IN /\ (\E t \in ScanIds : scan[t].pc \in {"created", "loop", "collect"})
                => (snapshot.in_progress /\ ~terminal)
           /\ terminal => ~snapshot.in_progress

====
